---------------------------- MODULE Spec2Model ----------------------------
(***************************************************************************)
(* WorkTrackerAI: the capture engine (internal/capture/engine.go), its     *)
(* schedule gate (pkg/utils TimeInRange / IsDayInList), and the analysis   *)
(* scheduler's jobs (internal/scheduler/scheduler.go) over the storage     *)
(* manager (internal/storage/manager.go).                                  *)
(*                                                                         *)
(* Time is measured in minutes since midnight of the modelled day; an      *)
(* integer stands for the exact instant HH:MM:00.000, so "now = 540" is    *)
(* the instant 09:00:00 sharp and not the whole minute.                    *)
(***************************************************************************)
EXTENDS Integers, Sequences, FiniteSets, Bags, TLC

VARIABLES
    gate,         \* inputs and results of one evaluation of the schedule gate
    now,          \* wall clock, minutes since midnight of today
    weekday,      \* time.Weekday of today (0 = Sunday)
    schedule,     \* config.Schedule (models.WorkSchedule)
    captureCfg,   \* config.Capture (models.CaptureConfig)
    running,      \* Engine.running
    cur,          \* number of contexts/tickers allocated; e.ctx and e.ticker hold id cur (0 = nil)
    cancelled,    \* ids of the contexts whose cancel() was called
    stopped,      \* ids of the tickers whose Stop() was called
    tickC,        \* ids of the tickers whose channel C holds a tick (capacity 1)
    loops,        \* captureLoop goroutines: id -> position in the loop
    autoPc,       \* position of the scheduler's autoStartCapture / autoStopCapture runs
    lastCapture,  \* Engine.lastCapture (NoTime = zero time.Time)
    screenshots,  \* table screenshots: bag of [ts, idx, analyzed]
    summaries,    \* table work_summaries: bag of [start, end]
    jobs,         \* scheduler job runs in flight: job -> record
    lastEvent,    \* history: the last engine call result or capture-cycle outcome
    okCalls,      \* history: the Start/Stop calls that returned nil, in order
    cronDaily,    \* minute of the day the daily report job was registered for
    cron,         \* Scheduler.running and the entries registered in Scheduler.cron
    plan,         \* one call of the segment planner: its inputs and its result
    regen,        \* the run of handleAnalyzeNow: its position and its locals
    clean,        \* config.Storage.RetentionDays, the clean-up runs and an analysis on the tables
    lastRun       \* history: the job run that completed last

vars == <<gate, now, weekday, schedule, captureCfg, running, cur, cancelled,
          stopped, tickC, loops, autoPc, lastCapture, screenshots, summaries,
          jobs, cronDaily, cron, lastEvent, okCalls, lastRun, plan, regen, clean>>

clockVars == <<now, weekday>>
engVars == <<running, cur, cancelled, stopped, tickC, loops, autoPc, lastCapture,
             lastEvent, okCalls>>
cronVars == <<cronDaily, cron>>
schedVars == <<summaries, jobs, cronVars, lastRun>>
planVars == <<plan, regen, clean>>

----------------------------------------------------------------------------
(* Clock arithmetic *)

MinutesPerHour == 60
MinutesPerDay == 24 * MinutesPerHour
NoTime == 0 - 1

(* Wall-clock strings "HH:MM" as sequences of one-character strings. *)
DigitChars == <<"0", "1", "2", "3", "4", "5", "6", "7", "8", "9">>
IsDigit(c) == \E i \in 1..10 : DigitChars[i] = c
DigitVal(c) == (CHOOSE i \in 1..10 : DigitChars[i] = c) - 1

T0000 == <<"0", "0", ":", "0", "0">>
T0001 == <<"0", "0", ":", "0", "1">>
T0003 == <<"0", "0", ":", "0", "3">>
T0200 == <<"0", "2", ":", "0", "0">>
T0900 == <<"0", "9", ":", "0", "0">>
T900  == <<"9", ":", "0", "0">>
T0930 == <<"0", "9", ":", "3", "0">>
T1000 == <<"1", "0", ":", "0", "0">>
T1100 == <<"1", "1", ":", "0", "0">>
T1800 == <<"1", "8", ":", "0", "0">>
T2200 == <<"2", "2", ":", "0", "0">>
T2400 == <<"2", "4", ":", "0", "0">>
T0960 == <<"0", "9", ":", "6", "0">>
TNoColon == <<"0", "9", "0", "0">>
TEmpty == <<>>

(* time.Parse("15:04", s): an hour of one or two digits below 24, a colon,   *)
(* a minute of exactly two digits below 60, and nothing after it.            *)
ParseClock(s) ==
    LET n  == Len(s)
        hd == IF n >= 2 /\ IsDigit(s[1]) /\ IsDigit(s[2]) THEN 2
              ELSE IF n >= 1 /\ IsDigit(s[1]) THEN 1 ELSE 0
        hour == IF hd = 2 THEN 10 * DigitVal(s[1]) + DigitVal(s[2])
                ELSE IF hd = 1 THEN DigitVal(s[1]) ELSE 0
        shape == /\ hd > 0
                 /\ n = hd + 3
                 /\ s[hd + 1] = ":"
                 /\ IsDigit(s[hd + 2])
                 /\ IsDigit(s[hd + 3])
        minute == IF shape THEN 10 * DigitVal(s[hd + 2]) + DigitVal(s[hd + 3]) ELSE 0
    IN  IF shape /\ hour < 24 /\ minute < 60
        THEN [ok |-> TRUE, hour |-> hour, minute |-> minute]
        ELSE [ok |-> FALSE, hour |-> 0, minute |-> 0]

(* time.Date(today, hour, minute, 0, 0) as minutes since today's midnight. *)
TodayAt(p) == p.hour * MinutesPerHour + p.minute

----------------------------------------------------------------------------
(* pkg/utils: the schedule-gate helpers *)

TimeInRangeNoShift(startTime, endTime, t) ==
    LET start == ParseClock(startTime)
        end   == ParseClock(endTime)
    IN  IF ~start.ok THEN [inRange |-> FALSE, err |-> "invalid start time format"]
        ELSE IF ~end.ok THEN [inRange |-> FALSE, err |-> "invalid end time format"]
        ELSE [inRange |-> t > TodayAt(start) /\ t < TodayAt(end), err |-> "nil"]

TimeInRange(startTime, endTime, t) ==
    LET start == ParseClock(startTime)
        end   == ParseClock(endTime)
    IN  IF ~start.ok THEN [inRange |-> FALSE, err |-> "invalid start time format"]
        ELSE IF ~end.ok THEN [inRange |-> FALSE, err |-> "invalid end time format"]
        ELSE LET startToday == TodayAt(start)
                 endToday   == IF TodayAt(end) < startToday
                               THEN TodayAt(end) + MinutesPerDay
                               ELSE TodayAt(end)
             IN  [inRange |-> t > startToday /\ t < endToday, err |-> "nil"]

IsDayInList(day, days) == \E i \in 1..Len(days) : days[i] = day

shouldCaptureNoEnabledCheck(sched, day, t) ==
    IF ~IsDayInList(day, sched.WorkDays) THEN FALSE
    ELSE LET r == TimeInRange(sched.StartTime, sched.EndTime, t)
         IN  IF r.err # "nil" THEN FALSE ELSE r.inRange

shouldCapture(sched, day, t) ==
    IF ~sched.Enabled THEN TRUE
    ELSE IF ~IsDayInList(day, sched.WorkDays) THEN FALSE
    ELSE LET r == TimeInRange(sched.StartTime, sched.EndTime, t)
         IN  IF r.err # "nil" THEN FALSE ELSE r.inRange

----------------------------------------------------------------------------
(* Configuration values and idle values of the components *)

WeekDays == <<1, 2, 3, 4, 5>>

(* models.DefaultConfig(): Schedule *)
DefaultSchedule ==
    [StartTime |-> T0900, EndTime |-> T1800, WorkDays |-> WeekDays,
     AnalysisInterval |-> MinutesPerHour, Enabled |-> TRUE]

(* models.DefaultConfig(): Capture (MergeScreens has Go's zero value) *)
DefaultCapture ==
    [Enabled |-> FALSE, MergeScreens |-> FALSE, SelectedScreens |-> <<0>>]

NoGate == [sched |-> DefaultSchedule, day |-> 0, t |-> 0,
           tirDone |-> FALSE, tir |-> [inRange |-> FALSE, err |-> "nil"],
           scDone |-> FALSE, sc |-> FALSE]

GateIdle == gate = NoGate

EngineIdle ==
    /\ running = FALSE
    /\ cur = 0
    /\ cancelled = {}
    /\ stopped = {}
    /\ tickC = {}
    /\ loops = <<>>
    /\ autoPc = [start |-> "idle", stop |-> "idle"]
    /\ lastCapture = NoTime
    /\ lastEvent = "none"
    /\ okCalls = <<>>

StorageIdle ==
    /\ screenshots = EmptyBag
    /\ summaries = EmptyBag

JobNames == {"periodic", "catchup", "daily"}

IdleJob ==
    [pc |-> "idle", start |-> 0, end |-> 0, shots |-> {},
     solo |-> FALSE, had |-> FALSE, inRange0 |-> FALSE, exact0 |-> FALSE, fired |-> FALSE]

NoFirst == [job |-> "none", res |-> "none", inRange0 |-> FALSE, exact0 |-> FALSE]

NoRun ==
    [job |-> "none", start |-> 0, end |-> 0, res |-> "none",
     solo |-> FALSE, had |-> FALSE, inRange0 |-> FALSE, exact0 |-> FALSE,
     first |-> NoFirst]

NoPlan == [build |-> "none", ts |-> {}, interval |-> 0, done |-> FALSE, segments |-> <<>>]

NoRegen ==
    [pc |-> "idle", calls |-> 0, segments |-> <<>>, k |-> 0, shots |-> {},
     results |-> <<>>, response |-> "none", aiCalls |-> 0, before |-> <<>>, solo |-> TRUE]

DefaultRetentionDays == 30

NoCleanup == [ok |-> FALSE, deleted |-> 0, cutoff |-> 0, again |-> FALSE, prevDeleted |-> 0]

NoAnalysis == [pc |-> "idle", start |-> 0, end |-> 0, shots |-> {}, saved |-> FALSE]

(* models.DefaultConfig(): Storage.RetentionDays; no clean-up run, no analysis *)
NoClean ==
    [retention |-> DefaultRetentionDays, since |-> FALSE,
     last |-> NoCleanup, ai |-> NoAnalysis]

PlannerIdle ==
    /\ plan = NoPlan
    /\ regen = NoRegen
    /\ clean = NoClean

(* NewScheduler: not running, cron.New() holds no entry.  since is the     *)
(* instant of the last cron.Start(), sched the schedule Start() read, fired *)
(* the entries the cron has called at the present instant.                  *)
NoCron ==
    [running |-> FALSE, entries |-> <<>>, since |-> 0, sched |-> DefaultSchedule,
     fired |-> {}, starts |-> 0, err |-> "none"]

SchedulerIdle ==
    /\ jobs = [j \in JobNames |-> IdleJob]
    /\ cronDaily = NoTime
    /\ cron = NoCron
    /\ lastRun = NoRun

----------------------------------------------------------------------------
(* The schedule gate as a function of its inputs: SpecGate draws a          *)
(* ScheduleConfig, a weekday and an instant, and evaluates TimeInRange and  *)
(* shouldCapture on them.                                                   *)

GateTimeStrings == {T0900, T900, T1800, T2200, T0200, T2400, TNoColon, TEmpty}
GateWorkDays == {<<>>, WeekDays, <<0, 6>>}
GateDays == {0, 1, 6}
GateInstants == {0, 60, 119, 120, 121, 539, 540, 541, 1079, 1080, 1081,
                 1320, 1321, 1439}

GateInit ==
    /\ \E st \in GateTimeStrings, et \in GateTimeStrings, wd \in GateWorkDays,
          en \in BOOLEAN, d \in GateDays, t \in GateInstants :
          gate = [NoGate EXCEPT
                    !.sched = [StartTime |-> st, EndTime |-> et, WorkDays |-> wd,
                               AnalysisInterval |-> MinutesPerHour, Enabled |-> en],
                    !.day = d, !.t = t]
    /\ now = 0
    /\ weekday = 0
    /\ schedule = DefaultSchedule
    /\ captureCfg = DefaultCapture
    /\ EngineIdle
    /\ StorageIdle
    /\ SchedulerIdle
    /\ PlannerIdle

CallTimeInRange ==
    /\ ~gate.tirDone
    /\ gate' = [gate EXCEPT !.tirDone = TRUE,
                            !.tir = TimeInRange(gate.sched.StartTime, gate.sched.EndTime, gate.t)]
    /\ UNCHANGED <<planVars, clockVars, schedule, captureCfg, engVars, screenshots, schedVars>>

CallShouldCapture ==
    /\ ~gate.scDone
    /\ gate' = [gate EXCEPT !.scDone = TRUE,
                            !.sc = shouldCapture(gate.sched, gate.day, gate.t)]
    /\ UNCHANGED <<planVars, clockVars, schedule, captureCfg, engVars, screenshots, schedVars>>

GateNext == CallTimeInRange \/ CallShouldCapture

SpecGate == GateInit /\ [][GateNext]_vars

----------------------------------------------------------------------------
(* internal/capture/engine.go: the capture engine.                          *)
(*                                                                          *)
(* Start and Stop run entirely under e.mu and are one step each.  The       *)
(* capture loop takes no lock when it evaluates e.ctx.Done() and            *)
(* e.ticker.C in its select, so after a restart a loop started earlier may  *)
(* observe the context and ticker of its own Start or of any later one:     *)
(* loop l reads an id in l..cur.                                            *)

MaxStarts == 2      \* successful Start() calls in one behaviour
MaxClock == 1       \* last instant of the engine's clock
MaxShots == 2       \* ticks are delivered while saved frames and cycles under way are fewer
MaxDisplays == 2    \* largest value of screenshot.NumActiveDisplays()

CaptureConfigs ==
    {DefaultCapture,
     [Enabled |-> TRUE, MergeScreens |-> FALSE, SelectedScreens |-> <<0>>],
     [Enabled |-> TRUE, MergeScreens |-> TRUE, SelectedScreens |-> <<0>>]}

(* The schedule of the engine's runs: the gate passes strictly after 00:00 *)
EngineSchedule ==
    [StartTime |-> T0000, EndTime |-> T0003, WorkDays |-> WeekDays,
     AnalysisInterval |-> MinutesPerHour, Enabled |-> TRUE]

Shot(ts, idx) == [ts |-> ts, idx |-> idx, analyzed |-> FALSE]

(* Manager.SaveScreenshot for the frames idxs[1..k], all taken at instant ts *)
RECURSIVE SaveShots(_, _, _, _)
SaveShots(table, idxs, k, ts) ==
    IF k = 0 THEN table
    ELSE SaveShots(table, idxs, k - 1, ts) (+) SetToBag({Shot(ts, idxs[k])})

Init ==
    /\ gate = NoGate
    /\ now = 0
    /\ weekday = 1
    /\ schedule = EngineSchedule
    /\ captureCfg = DefaultCapture
    /\ EngineIdle
    /\ StorageIdle
    /\ SchedulerIdle
    /\ PlannerIdle

(* Engine.IsRunning *)
IsRunning == running

EngineStartNoRunningCheck(cfg) ==
    IF ~cfg.Enabled
    THEN /\ lastEvent' = "Start: disabled"
         /\ UNCHANGED <<running, cur, cancelled, stopped, tickC, loops, lastCapture, okCalls>>
    ELSE /\ cur < MaxStarts
         /\ cur' = cur + 1
         /\ running' = TRUE
         /\ loops' = Append(loops, "select")
         /\ lastEvent' = "Start: nil"
         /\ okCalls' = Append(okCalls, "Start")
         /\ UNCHANGED <<cancelled, stopped, tickC, lastCapture>>

(* Engine.Start, reading cfg as config.Capture *)
EngineStart(cfg) ==
    IF running
    THEN /\ lastEvent' = "Start: already running"
         /\ UNCHANGED <<running, cur, cancelled, stopped, tickC, loops, lastCapture, okCalls>>
    ELSE IF ~cfg.Enabled
    THEN /\ lastEvent' = "Start: disabled"
         /\ UNCHANGED <<running, cur, cancelled, stopped, tickC, loops, lastCapture, okCalls>>
    ELSE /\ cur < MaxStarts
         /\ cur' = cur + 1
         /\ running' = TRUE
         /\ loops' = Append(loops, "select")
         /\ lastEvent' = "Start: nil"
         /\ okCalls' = Append(okCalls, "Start")
         /\ UNCHANGED <<cancelled, stopped, tickC, lastCapture>>

EngineStopUnguarded ==
    /\ cur > 0
    /\ cancelled' = cancelled \cup {cur}
    /\ stopped' = stopped \cup {cur}
    /\ running' = FALSE
    /\ lastEvent' = "Stop: nil"
    /\ okCalls' = Append(okCalls, "Stop")
    /\ UNCHANGED <<cur, tickC, loops, lastCapture>>

(* Engine.Stop *)
EngineStop ==
    IF ~running
    THEN /\ lastEvent' = "Stop: not running"
         /\ UNCHANGED <<running, cur, cancelled, stopped, tickC, loops, lastCapture, okCalls>>
    ELSE /\ cancelled' = cancelled \cup {cur}
         /\ stopped' = stopped \cup {cur}
         /\ running' = FALSE
         /\ lastEvent' = "Stop: nil"
         /\ okCalls' = Append(okCalls, "Stop")
         /\ UNCHANGED <<cur, tickC, loops, lastCapture>>

(* Server.handleStartService: enable capture in the config, then Start *)
HandleStartService ==
    /\ captureCfg' = [captureCfg EXCEPT !.Enabled = TRUE]
    /\ EngineStart(captureCfg')
    /\ UNCHANGED <<gate, planVars, clockVars, schedule, autoPc, screenshots, schedVars>>

(* Server.handleStopService *)
HandleStopService ==
    /\ EngineStop
    /\ UNCHANGED <<gate, planVars, clockVars, schedule, captureCfg, autoPc, screenshots, schedVars>>

(* TrayApp.onReady: the tray's automatic Start *)
TrayStart ==
    /\ EngineStart(captureCfg)
    /\ UNCHANGED <<gate, planVars, clockVars, schedule, captureCfg, autoPc, screenshots, schedVars>>

(* Scheduler.autoStartCapture: the IsRunning() test, then (later) Start() *)
AutoStartCheck ==
    /\ autoPc.start = "idle"
    /\ autoPc' = [autoPc EXCEPT !.start = IF IsRunning THEN "idle" ELSE "call"]
    /\ UNCHANGED <<gate, planVars, clockVars, schedule, captureCfg, running, cur, cancelled, stopped,
                   tickC, loops, lastCapture, lastEvent, okCalls, screenshots, schedVars>>

AutoStartCallNoRunningCheck ==
    /\ autoPc.start = "call"
    /\ autoPc' = [autoPc EXCEPT !.start = "idle"]
    /\ EngineStartNoRunningCheck(captureCfg)
    /\ UNCHANGED <<gate, planVars, clockVars, schedule, captureCfg, screenshots, schedVars>>

AutoStartCall ==
    /\ autoPc.start = "call"
    /\ autoPc' = [autoPc EXCEPT !.start = "idle"]
    /\ EngineStart(captureCfg)
    /\ UNCHANGED <<gate, planVars, clockVars, schedule, captureCfg, screenshots, schedVars>>

(* Scheduler.autoStopCapture: the IsRunning() test, then (later) Stop() *)
AutoStopCheck ==
    /\ autoPc.stop = "idle"
    /\ autoPc' = [autoPc EXCEPT !.stop = IF IsRunning THEN "call" ELSE "idle"]
    /\ UNCHANGED <<gate, planVars, clockVars, schedule, captureCfg, running, cur, cancelled, stopped,
                   tickC, loops, lastCapture, lastEvent, okCalls, screenshots, schedVars>>

AutoStopCall ==
    /\ autoPc.stop = "call"
    /\ autoPc' = [autoPc EXCEPT !.stop = "idle"]
    /\ EngineStop
    /\ UNCHANGED <<gate, planVars, clockVars, schedule, captureCfg, screenshots, schedVars>>

(* Server.handleUpdateConfig, restricted to the capture section *)
HandleUpdateConfig ==
    /\ \E c \in CaptureConfigs : captureCfg' = c
    /\ captureCfg' # captureCfg
    /\ UNCHANGED <<gate, planVars, clockVars, schedule, engVars, screenshots, schedVars>>

(* Loops inside captureAll *)
InCapture == Cardinality({l \in 1..cur : loops[l] = "capture"})

(* The runtime delivers a tick of ticker t into its channel of capacity 1;  *)
(* a stopped ticker delivers nothing more, a tick already there stays.      *)
TickerFire(t) ==
    /\ t \in 1..cur
    /\ t \notin stopped
    /\ t \notin tickC
    /\ BagCardinality(screenshots) + Cardinality(tickC) + InCapture < MaxShots
    /\ tickC' = tickC \cup {t}
    /\ UNCHANGED <<gate, planVars, clockVars, schedule, captureCfg, running, cur, cancelled, stopped,
                   loops, autoPc, lastCapture, lastEvent, okCalls, screenshots, schedVars>>

(* captureLoop: case <-e.ctx.Done() *)
LoopExit(l) ==
    /\ l \in 1..cur
    /\ loops[l] = "select"
    /\ \E c \in l..cur : c \in cancelled
    /\ loops' = [loops EXCEPT ![l] = "done"]
    /\ UNCHANGED <<gate, planVars, clockVars, schedule, captureCfg, running, cur, cancelled, stopped,
                   tickC, autoPc, lastCapture, lastEvent, okCalls, screenshots, schedVars>>

(* captureLoop: case <-e.ticker.C, then shouldCapture() *)
LoopTick(l) ==
    /\ l \in 1..cur
    /\ loops[l] = "select"
    /\ \E t \in l..cur :
          /\ t \in tickC
          /\ tickC' = tickC \ {t}
    /\ IF shouldCapture(schedule, weekday, now)
       THEN /\ loops' = [loops EXCEPT ![l] = "capture"]
            /\ UNCHANGED lastEvent
       ELSE /\ lastEvent' = "cycle: gated out"
            /\ UNCHANGED loops
    /\ UNCHANGED <<gate, planVars, clockVars, schedule, captureCfg, running, cur, cancelled, stopped,
                   autoPc, lastCapture, okCalls, screenshots, schedVars>>

GetScreenStateInfoAlwaysActive(screensaverRunning, screenLocked) ==
    [active |-> TRUE, screensaverRunning |-> screensaverRunning, screenLocked |-> screenLocked]

(* screenstate.GetScreenStateInfo over the answers of the two probes *)
GetScreenStateInfo(screensaverRunning, screenLocked) ==
    [active |-> ~screensaverRunning /\ ~screenLocked,
     screensaverRunning |-> screensaverRunning, screenLocked |-> screenLocked]

(* captureAll: the activity probe, the acquisitions and, when it reaches    *)
(* its last statements, e.lastCapture = time.Now().  n is                   *)
(* NumActiveDisplays(), k the number of frames saved before the first       *)
(* failure, io tells whether the I/O of the next frame (if any) fails.      *)
captureAll(l, screensaverRunning, screenLocked, n, k, io) ==
    LET active == GetScreenStateInfo(screensaverRunning, screenLocked).active
        sel == IF captureCfg.MergeScreens THEN <<0>> ELSE captureCfg.SelectedScreens
    IN  IF ~active
        THEN /\ k = 0 /\ io = FALSE
             /\ lastEvent' = "cycle: inactive"
             /\ UNCHANGED <<screenshots, lastCapture>>
        ELSE IF captureCfg.MergeScreens /\ n > 1
        THEN /\ k = 0
             /\ IF io
                THEN /\ lastEvent' = "cycle: failed"
                     /\ UNCHANGED screenshots
                ELSE /\ screenshots' = screenshots (+) SetToBag({Shot(now, 0 - 1)})
                     /\ lastEvent' = "cycle: merged frame saved"
             /\ UNCHANGED lastCapture
        ELSE /\ k \in 0..Len(sel)
             /\ \A i \in 1..k : sel[i] < n
             /\ screenshots' = SaveShots(screenshots, sel, k, now)
             /\ IF k = Len(sel)
                THEN /\ io = FALSE
                     /\ lastCapture' = now
                     /\ lastEvent' = "cycle: frames saved"
                ELSE /\ (io \/ sel[k + 1] >= n)
                     /\ (sel[k + 1] >= n => io = FALSE)
                     /\ lastEvent' = "cycle: failed"
                     /\ UNCHANGED lastCapture

LoopCaptureReturnsOnError(l) ==
    /\ l \in 1..cur
    /\ loops[l] = "capture"
    /\ \E ss \in BOOLEAN, lk \in BOOLEAN, n \in 0..MaxDisplays, k \in 0..MaxDisplays, io \in BOOLEAN :
          captureAll(l, ss, lk, n, k, io)
    /\ loops' = [loops EXCEPT ![l] = IF lastEvent' = "cycle: failed" THEN "done" ELSE "select"]
    /\ UNCHANGED <<gate, planVars, clockVars, schedule, captureCfg, running, cur, cancelled, stopped,
                   tickC, autoPc, okCalls, schedVars>>

(* captureLoop: the call of captureAll and the logging of its error *)
LoopCapture(l) ==
    /\ l \in 1..cur
    /\ loops[l] = "capture"
    /\ \E ss \in BOOLEAN, lk \in BOOLEAN, n \in 0..MaxDisplays, k \in 0..MaxDisplays, io \in BOOLEAN :
          captureAll(l, ss, lk, n, k, io)
    /\ loops' = [loops EXCEPT ![l] = "select"]
    /\ UNCHANGED <<gate, planVars, clockVars, schedule, captureCfg, running, cur, cancelled, stopped,
                   tickC, autoPc, okCalls, schedVars>>

(* The wall clock advances by one instant *)
AdvanceClock ==
    /\ now < MaxClock
    /\ now' = now + 1
    /\ UNCHANGED <<gate, planVars, weekday, schedule, captureCfg, engVars, screenshots, schedVars>>

Next ==
    \/ HandleStartService
    \/ HandleStopService
    \/ TrayStart
    \/ AutoStartCheck
    \/ AutoStartCall
    \/ AutoStopCheck
    \/ AutoStopCall
    \/ HandleUpdateConfig
    \/ \E t \in 1..MaxStarts : TickerFire(t)
    \/ \E l \in 1..MaxStarts : LoopExit(l)
    \/ \E l \in 1..MaxStarts : LoopTick(l)
    \/ \E l \in 1..MaxStarts : LoopCapture(l)
    \/ AdvanceClock

Spec == Init /\ [][Next]_vars

----------------------------------------------------------------------------
(* Properties of the capture engine (checked under Spec) *)

(* An engine call that meets a state conflict *)
RejectedCall ==
    \/ running /\ (HandleStartService \/ TrayStart \/ AutoStartCall)
    \/ ~running /\ (HandleStopService \/ AutoStopCall)

(* C3: Start() while Running and Stop() while Stopped return an error and   *)
(* leave the running flag, the capture loops, the context and ticker and    *)
(* lastCapture exactly as they were.                                        *)
C3_StateConflictNoEffect ==
    [][RejectedCall =>
          /\ lastEvent' \in {"Start: already running", "Stop: not running"}
          /\ UNCHANGED <<running, cur, cancelled, stopped, tickC, loops, lastCapture, okCalls>>]_vars

(* a second Start() was rejected while the engine runs, after a capture *)
C3_Witness ==
    /\ lastEvent = "Start: already running"
    /\ running
    /\ lastCapture # NoTime
    /\ Len(loops) = 1

C4_NoAcquisitionAfterStop ==
    [][(~running /\ ~running') =>
          (screenshots' = screenshots /\ lastCapture' = lastCapture)]_vars

(* C32 (as claimed): at most one capture loop acquires frames at any time:  *)
(* never are two loops inside captureAll, and once a later Start() has      *)
(* replaced the context and the ticker, the loop of an earlier Start()      *)
(* takes no tick any more (it exits), also when it was inside captureAll    *)
(* while Stop() ran.                                                        *)
C32_OneCaptureLoop ==
    /\ [](InCapture <= 1)
    /\ [][\A l \in 1..MaxStarts :
             (l < cur /\ cur' = cur /\ loops[l] = "select") => loops'[l] # "capture"]_vars

(* C5: the calls that return nil alternate Start, Stop, Start, ... and      *)
(* IsRunning() is true exactly after a successful Start not yet followed by *)
(* a successful Stop.                                                       *)
C5_CallsAlternate ==
    /\ \A i \in 1..Len(okCalls) : okCalls[i] = IF i % 2 = 1 THEN "Start" ELSE "Stop"
    /\ IsRunning <=> (Len(okCalls) > 0 /\ okCalls[Len(okCalls)] = "Start")

(* the engine runs again after a Start, a Stop and a second Start *)
C5_Witness ==
    /\ okCalls = <<"Start", "Stop", "Start">>
    /\ IsRunning

(* C9 (as claimed): every capture cycle that completes successfully, with   *)
(* per-source frames or with one merged frame, sets lastCapture to the      *)
(* instant of the cycle; a tick that is gated out, skipped by the activity  *)
(* probe or fails leaves lastCapture unchanged.                             *)
C9_LastCaptureOnSuccess ==
    [][\A l \in 1..MaxStarts :
          /\ LoopCapture(l) =>
                IF lastEvent' \in {"cycle: frames saved", "cycle: merged frame saved"}
                THEN lastCapture' = now
                ELSE lastCapture' = lastCapture
          /\ LoopTick(l) => lastCapture' = lastCapture]_vars

(* C10: a failed acquisition is swallowed: the engine stays Running, no     *)
(* call result changes, the loop is back at its select for the next tick,   *)
(* and a loop exits only when a context was cancelled by Stop().            *)
C10_FailureSwallowed ==
    /\ [][\A l \in 1..MaxStarts :
            (/\ lastEvent' = "cycle: failed"
             /\ l \in 1..cur /\ loops[l] = "capture"
             /\ LoopCapture(l)) =>
                /\ running' = running
                /\ okCalls' = okCalls
                /\ loops'[l] = "select"]_vars
    /\ [](\A l \in 1..cur :
            loops[l] = "done" =>
                /\ \E c \in l..cur : c \in cancelled
                /\ \E i \in 1..Len(okCalls) : okCalls[i] = "Stop")

(* a cycle failed, the engine still runs and its loop waits for a tick *)
C10_Witness ==
    /\ lastEvent = "cycle: failed"
    /\ running
    /\ loops[cur] = "select"
    /\ okCalls = <<"Start">>

(* C11: when the activity probe reports a running screensaver or a locked  *)
(* screen on a tick that passed the gate, the cycle is skipped without an   *)
(* error: no frame is persisted, lastCapture and the running flag keep      *)
(* their values, and the loop waits for the next tick.  (The step is the    *)
(* one in which loop l leaves its call of captureAll; a skipped cycle       *)
(* attempts no frame, so none was saved and no I/O failed.)                 *)
C11_InactiveTickSkipped ==
    [][\A l \in 1..MaxStarts :
          (l \in 1..cur /\ loops[l] = "capture" /\ loops'[l] # "capture") =>
              \A ss \in BOOLEAN, lk \in BOOLEAN, n \in 0..MaxDisplays :
                  ((ss \/ lk) /\ captureAll(l, ss, lk, n, 0, FALSE)) =>
                      /\ lastEvent' = "cycle: inactive"
                      /\ screenshots' = screenshots
                      /\ lastCapture' = lastCapture
                      /\ running' = running
                      /\ okCalls' = okCalls
                      /\ loops'[l] = "select"]_vars

(* a cycle was skipped as inactive after an earlier cycle had saved a frame *)
C11_Witness ==
    /\ lastEvent = "cycle: inactive"
    /\ running
    /\ lastCapture # NoTime
    /\ BagCardinality(screenshots) = 1
    /\ loops[cur] = "select"

----------------------------------------------------------------------------
(* Properties of the schedule gate (checked under SpecGate) *)

GateStart == ParseClock(gate.sched.StartTime)
GateEnd == ParseClock(gate.sched.EndTime)

(* C6: with enabled = false the gate returns true for every instant, every *)
(* weekday and every startTime, endTime and workDays.                       *)
C6_DisabledAlwaysTrue ==
    (gate.scDone /\ ~gate.sched.Enabled) => gate.sc = TRUE

(* the gate passed with enabled = false, unparsable times, empty workDays *)
C6_Witness ==
    /\ gate.scDone
    /\ ~gate.sched.Enabled
    /\ ~GateStart.ok
    /\ ~GateEnd.ok
    /\ gate.sched.WorkDays = <<>>
    /\ gate.sc = TRUE

(* C7 (as claimed): with enabled = true and startTime < endTime the gate    *)
(* returns true iff today is in workDays and startTime <= t < endTime.      *)
C7_HalfOpenWindow ==
    (/\ gate.scDone
     /\ gate.sched.Enabled
     /\ GateStart.ok /\ GateEnd.ok
     /\ TodayAt(GateStart) < TodayAt(GateEnd))
    => (gate.sc <=> /\ IsDayInList(gate.day, gate.sched.WorkDays)
                    /\ TodayAt(GateStart) <= gate.t
                    /\ gate.t < TodayAt(GateEnd))

(* C8: when endTime is earlier than startTime, TimeInRange compares with    *)
(* the end shifted by 24h: with 22:00-02:00 it is true at 23:59 and false   *)
(* at 02:01.                                                                *)
C8_OvernightShift ==
    (/\ gate.tirDone
     /\ GateStart.ok /\ GateEnd.ok
     /\ TodayAt(GateEnd) < TodayAt(GateStart))
    => /\ gate.tir.err = "nil"
       /\ gate.tir.inRange <=> (/\ gate.t > TodayAt(GateStart)
                                /\ gate.t < TodayAt(GateEnd) + MinutesPerDay)
       /\ (gate.sched.StartTime = T2200 /\ gate.sched.EndTime = T0200 /\ gate.t = 1439)
             => gate.tir.inRange
       /\ (gate.sched.StartTime = T2200 /\ gate.sched.EndTime = T0200 /\ gate.t = 121)
             => ~gate.tir.inRange

(* TimeInRange answered true for 22:00-02:00 at 23:59 *)
C8_Witness ==
    /\ gate.tirDone
    /\ gate.sched.StartTime = T2200
    /\ gate.sched.EndTime = T0200
    /\ gate.t = 1439
    /\ gate.tir.inRange

(* C36 (as claimed): for an overnight schedule (endTime earlier than        *)
(* startTime) the gate passes during the whole span, the part after         *)
(* midnight included: with 22:00-02:00, enabled, on a weekday of workDays,  *)
(* a tick at 01:00 is inside the range and the gate answers true.           *)
C36_OvernightPassesAfterMidnight ==
    (/\ gate.scDone
     /\ gate.sched.Enabled
     /\ GateStart.ok /\ GateEnd.ok
     /\ TodayAt(GateEnd) < TodayAt(GateStart)
     /\ IsDayInList(gate.day, gate.sched.WorkDays)
     /\ (gate.t > TodayAt(GateStart) \/ gate.t < TodayAt(GateEnd)))
    => gate.sc = TRUE

----------------------------------------------------------------------------
(* The analysis scheduler and the storage it reads and writes: SpecSched    *)
(* runs the periodic job, the catch-up job and the daily report job over    *)
(* the instants of a morning at which jobs fire or an hour begins.          *)

MaxSchedSteps == 3  \* steps of the scheduler's clock
MaxSummaries == 2   \* analyses are begun while saved summaries and analyses under way are fewer

SchedClockStart == 9 * MinutesPerHour + 50
ReportLead == 10

(* The instants of the scheduler's clock: 09:50, 10:00, 10:05, 10:50, ... *)
Instant(k) ==
    SchedClockStart + MinutesPerHour * (k \div 3)
        + (IF k % 3 = 0 THEN 0 ELSE IF k % 3 = 1 THEN 10 ELSE 15)

SchedSchedules ==
    { [StartTime |-> T0900, EndTime |-> T1100, WorkDays |-> WeekDays,
       AnalysisInterval |-> MinutesPerHour, Enabled |-> TRUE],
      [StartTime |-> T0930, EndTime |-> T1000, WorkDays |-> WeekDays,
       AnalysisInterval |-> 30, Enabled |-> TRUE],
      [StartTime |-> T0900, EndTime |-> T1100, WorkDays |-> WeekDays,
       AnalysisInterval |-> MinutesPerHour, Enabled |-> FALSE] }

(* time.Date(now..., now.Hour(), 0, 0, 0) *)
HourFloor(t) == t - (t % MinutesPerHour)

(* COUNT of the rows of a table among the given ones *)
RECURSIVE CountRows(_, _)
CountRows(table, rows) ==
    IF rows = {} THEN 0
    ELSE LET r == CHOOSE x \in rows : TRUE
         IN  CopiesIn(r, table) + CountRows(table, rows \ {r})

HasWorkSummaryForRangeOpenStart(table, start, end) ==
    CountRows(table, {r \in BagToSet(table) : r.start > start /\ r.start < end}) > 0

HasWorkSummaryForExactWindow(table, start, end) ==
    CountRows(table, {r \in BagToSet(table) : r.start = start /\ r.end = end}) > 0

(* Manager.HasWorkSummaryForRange:                                          *)
(* SELECT COUNT of the rows WHERE start_time >= ? AND start_time < ?        *)
HasWorkSummaryForRange(table, start, end) ==
    CountRows(table, {r \in BagToSet(table) : r.start >= start /\ r.start < end}) > 0

(* Manager.GetScreenshots: WHERE timestamp >= ? AND timestamp <= ? *)
GetScreenshots(table, start, end) ==
    {r \in BagToSet(table) : r.ts >= start /\ r.ts <= end}

(* Manager.SaveWorkSummary of the summary parseResponse built for the window *)
SaveWorkSummary(table, start, end) ==
    table (+) SetToBag({[start |-> start, end |-> end]})

(* Manager.MarkScreenshotAnalyzed for every fetched row; SpecSched stores   *)
(* at most one frame per instant, so the instant identifies the row.        *)
MarkScreenshotAnalyzed(table, ids) ==
    LET Marked(r) == [r EXCEPT !.analyzed = (r.analyzed \/ r.ts \in ids)]
        rows == {Marked(r) : r \in BagToSet(table)}
        Before(t) == {r \in BagToSet(table) : Marked(r) = t}
    IN  [t \in rows |-> CountRows(table, Before(t))]

(* addDailyReportJob: the cron minute, ten minutes before the work end *)
DailyReportMinute(sched) ==
    LET endTime == ParseClock(sched.EndTime)
    IN  IF ~endTime.ok THEN NoTime
        ELSE (TodayAt(endTime) + MinutesPerDay - ReportLead) % MinutesPerDay

SchedInit ==
    /\ gate = NoGate
    /\ now = SchedClockStart
    /\ weekday = 1
    /\ schedule \in SchedSchedules
    /\ captureCfg = DefaultCapture
    /\ EngineIdle
    /\ StorageIdle
    /\ jobs = [j \in JobNames |-> IdleJob]
    /\ cronDaily = DailyReportMinute(schedule)
    /\ cron = NoCron
    /\ PlannerIdle
    /\ lastRun = NoRun

HourlyJobs == {"periodic", "catchup"}

Failures == {"failed: llm", "failed: save"}

(* history: run completes right after lastRun; when the two are the         *)
(* periodic and the catch-up job, one after the other with no other run     *)
(* beside or between them, for one window that held frames, and neither     *)
(* failed, the completed run remembers the first of the two                 *)
Completed(run) ==
    LET pair == /\ {lastRun.job, run.job} = HourlyJobs
                /\ lastRun.start = run.start
                /\ lastRun.end = run.end
                /\ lastRun.solo /\ run.solo
                /\ lastRun.had /\ run.had
                /\ lastRun.res \notin Failures
                /\ run.res \notin Failures
    IN  run @@ [first |-> IF pair
                          THEN [job |-> lastRun.job, res |-> lastRun.res,
                                inRange0 |-> lastRun.inRange0, exact0 |-> lastRun.exact0]
                          ELSE NoFirst]

OthersIdle(j) == \A k \in JobNames \ {j} : jobs[k].pc = "idle"

(* history: what the tables held for the window when the run began *)
WindowFacts(start, end) ==
    [had      |-> \E r \in BagToSet(screenshots) : r.ts >= start /\ r.ts < end,
     inRange0 |-> \E r \in BagToSet(summaries) : r.start >= start /\ r.start < end,
     exact0   |-> \E r \in BagToSet(summaries) : r.start = start /\ r.end = end]

(* a job body that returns without waiting for the AI service *)
ReturnAtOnce(j, start, end, res) ==
    LET f == WindowFacts(start, end)
    IN  /\ jobs' = [k \in JobNames |->
                      IF k = j THEN [jobs[k] EXCEPT !.fired = TRUE]
                      ELSE IF jobs[k].pc # "idle" THEN [jobs[k] EXCEPT !.solo = FALSE]
                      ELSE jobs[k]]
        /\ lastRun' = Completed([job |-> j, start |-> start, end |-> end, res |-> res,
                                 solo |-> OthersIdle(j), had |-> f.had,
                                 inRange0 |-> f.inRange0, exact0 |-> f.exact0])
        /\ UNCHANGED <<summaries, screenshots>>

(* Analyzer.AnalyzePeriod up to the call of the AI service *)
AnalyzePeriodCall(j, start, end, noData) ==
    LET rows == GetScreenshots(screenshots, start, end)
        f == WindowFacts(start, end)
    IN  IF rows = {}
        THEN ReturnAtOnce(j, start, end, noData)
        ELSE /\ BagCardinality(summaries)
                  + Cardinality({k \in JobNames : jobs[k].pc = "llm"}) < MaxSummaries
             /\ jobs' = [k \in JobNames |->
                           IF k = j
                           THEN [pc |-> "llm", start |-> start, end |-> end,
                                 shots |-> {r.ts : r \in rows}, solo |-> OthersIdle(j),
                                 had |-> f.had, inRange0 |-> f.inRange0,
                                 exact0 |-> f.exact0, fired |-> TRUE]
                           ELSE IF jobs[k].pc # "idle" THEN [jobs[k] EXCEPT !.solo = FALSE]
                           ELSE jobs[k]]
             /\ UNCHANGED <<summaries, screenshots, lastRun>>

AnalyzePeriodReturnChecksAgain(j, out) ==
    /\ jobs[j].pc = "llm"
    /\ IF out = "ok" /\ ~HasWorkSummaryForRange(summaries, jobs[j].start, jobs[j].end)
       THEN /\ summaries' = SaveWorkSummary(summaries, jobs[j].start, jobs[j].end)
            /\ screenshots' = MarkScreenshotAnalyzed(screenshots, jobs[j].shots)
       ELSE UNCHANGED <<summaries, screenshots>>
    /\ jobs' = [jobs EXCEPT ![j] = [IdleJob EXCEPT !.fired = jobs[j].fired]]
    /\ lastRun' = Completed([job |-> j, start |-> jobs[j].start, end |-> jobs[j].end,
                             res |-> IF out = "ok" THEN "saved" ELSE "failed: " \o out,
                             solo |-> jobs[j].solo, had |-> jobs[j].had,
                             inRange0 |-> jobs[j].inRange0, exact0 |-> jobs[j].exact0])
    /\ UNCHANGED <<gate, planVars, clockVars, schedule, captureCfg, engVars, cronVars>>

AnalyzePeriodReturnSavesOnFailure(j, out) ==
    /\ jobs[j].pc = "llm"
    /\ summaries' = SaveWorkSummary(summaries, jobs[j].start, jobs[j].end)
    /\ screenshots' = MarkScreenshotAnalyzed(screenshots, jobs[j].shots)
    /\ jobs' = [jobs EXCEPT ![j] = [IdleJob EXCEPT !.fired = jobs[j].fired]]
    /\ lastRun' = Completed([job |-> j, start |-> jobs[j].start, end |-> jobs[j].end,
                             res |-> IF out = "ok" THEN "saved" ELSE "failed: " \o out,
                             solo |-> jobs[j].solo, had |-> jobs[j].had,
                             inRange0 |-> jobs[j].inRange0, exact0 |-> jobs[j].exact0])
    /\ UNCHANGED <<gate, planVars, clockVars, schedule, captureCfg, engVars, cronVars>>

(* Analyzer.AnalyzePeriod from the answer of the AI service to its return,  *)
(* and the rest of the job that called it (which only writes its log)        *)
AnalyzePeriodReturn(j, out) ==
    /\ jobs[j].pc = "llm"
    /\ IF out = "ok"
       THEN /\ summaries' = SaveWorkSummary(summaries, jobs[j].start, jobs[j].end)
            /\ screenshots' = MarkScreenshotAnalyzed(screenshots, jobs[j].shots)
       ELSE UNCHANGED <<summaries, screenshots>>
    /\ jobs' = [jobs EXCEPT ![j] = [IdleJob EXCEPT !.fired = jobs[j].fired]]
    /\ lastRun' = Completed([job |-> j, start |-> jobs[j].start, end |-> jobs[j].end,
                             res |-> IF out = "ok" THEN "saved" ELSE "failed: " \o out,
                             solo |-> jobs[j].solo, had |-> jobs[j].had,
                             inRange0 |-> jobs[j].inRange0, exact0 |-> jobs[j].exact0])
    /\ UNCHANGED <<gate, planVars, clockVars, schedule, captureCfg, engVars, cronVars>>

runAnalysisIntervalWindow ==
    /\ jobs["periodic"].pc = "idle"
    /\ ~jobs["periodic"].fired
    /\ LET start == now - schedule.AnalysisInterval
       IN  IF HasWorkSummaryForRange(summaries, start, now)
           THEN ReturnAtOnce("periodic", start, now, "skipped: has summary")
           ELSE AnalyzePeriodCall("periodic", start, now, "failed: no screenshots")
    /\ UNCHANGED <<gate, planVars, clockVars, schedule, captureCfg, engVars, cronVars>>

(* Scheduler.runAnalysis, fired by "@every Nm" *)
runAnalysis ==
    /\ jobs["periodic"].pc = "idle"
    /\ ~jobs["periodic"].fired
    /\ LET currentHour == HourFloor(now)
           prevHour == currentHour - MinutesPerHour
       IN  IF HasWorkSummaryForRange(summaries, prevHour, currentHour)
           THEN ReturnAtOnce("periodic", prevHour, currentHour, "skipped: has summary")
           ELSE AnalyzePeriodCall("periodic", prevHour, currentHour, "failed: no screenshots")
    /\ UNCHANGED <<gate, planVars, clockVars, schedule, captureCfg, engVars, cronVars>>

runHourlyPreviousSegmentAnalysisAnyHour ==
    /\ jobs["catchup"].pc = "idle"
    /\ ~jobs["catchup"].fired
    /\ now % MinutesPerHour = 5
    /\ LET prevEnd == HourFloor(now)
           prevStart == prevEnd - MinutesPerHour
       IN  IF ~schedule.Enabled
           THEN ReturnAtOnce("catchup", prevStart, prevEnd, "skipped: schedule disabled")
           ELSE IF HasWorkSummaryForRange(summaries, prevStart, prevEnd)
           THEN ReturnAtOnce("catchup", prevStart, prevEnd, "skipped: has summary")
           ELSE AnalyzePeriodCall("catchup", prevStart, prevEnd, "skipped: no screenshots")
    /\ UNCHANGED <<gate, planVars, clockVars, schedule, captureCfg, engVars, cronVars>>

(* Scheduler.runHourlyPreviousSegmentAnalysis, fired by "5 * * * *" *)
runHourlyPreviousSegmentAnalysis ==
    /\ jobs["catchup"].pc = "idle"
    /\ ~jobs["catchup"].fired
    /\ now % MinutesPerHour = 5
    /\ LET startParts == ParseClock(schedule.StartTime)
           endParts == ParseClock(schedule.EndTime)
           workStart == TodayAt(startParts)
           workEnd == TodayAt(endParts)
           prevEnd == HourFloor(now)
           prevStart == prevEnd - MinutesPerHour
           Return(res) == ReturnAtOnce("catchup", prevStart, prevEnd, res)
       IN  IF ~schedule.Enabled THEN Return("skipped: schedule disabled")
           ELSE IF ~startParts.ok \/ ~endParts.ok THEN Return("skipped: invalid time")
           ELSE IF prevEnd > workEnd THEN Return("skipped: after work end")
           ELSE IF prevEnd < workStart \/ prevStart < workStart
                THEN Return("skipped: before work start")
           ELSE IF HasWorkSummaryForRange(summaries, prevStart, prevEnd)
                THEN Return("skipped: has summary")
           ELSE AnalyzePeriodCall("catchup", prevStart, prevEnd, "skipped: no screenshots")
    /\ UNCHANGED <<gate, planVars, clockVars, schedule, captureCfg, engVars, cronVars>>

runDailyReportChecksSummaries ==
    /\ jobs["daily"].pc = "idle"
    /\ ~jobs["daily"].fired
    /\ now = cronDaily
    /\ LET start == TodayAt(ParseClock(schedule.StartTime))
           end == TodayAt(ParseClock(schedule.EndTime))
       IN  IF HasWorkSummaryForRange(summaries, start, end)
           THEN ReturnAtOnce("daily", start, end, "skipped: has summary")
           ELSE AnalyzePeriodCall("daily", start, end, "failed: no screenshots")
    /\ UNCHANGED <<gate, planVars, clockVars, schedule, captureCfg, engVars, cronVars>>

(* Scheduler.runDailyReport, fired at the minute addDailyReportJob           *)
(* registered (the modelled day is one of the registered weekdays)          *)
runDailyReport ==
    /\ jobs["daily"].pc = "idle"
    /\ ~jobs["daily"].fired
    /\ now = cronDaily
    /\ LET start == TodayAt(ParseClock(schedule.StartTime))
           end == TodayAt(ParseClock(schedule.EndTime))
       IN  AnalyzePeriodCall("daily", start, end, "failed: no screenshots")
    /\ UNCHANGED <<gate, planVars, clockVars, schedule, captureCfg, engVars, cronVars>>

(* Manager.SaveScreenshot of a frame the capture engine took at this instant *)
SaveScreenshot ==
    /\ BagCardinality(screenshots) < MaxShots
    /\ \A r \in BagToSet(screenshots) : r.ts # now
    /\ screenshots' = screenshots (+) SetToBag({Shot(now, 0)})
    /\ UNCHANGED <<gate, planVars, clockVars, schedule, captureCfg, engVars, schedVars>>

HandleUpdateScheduleReregisters ==
    /\ \E sc \in SchedSchedules : schedule' = sc
    /\ schedule' # schedule
    /\ cronDaily' = DailyReportMinute(schedule')
    /\ UNCHANGED <<gate, planVars, clockVars, captureCfg, engVars, screenshots,
                   summaries, jobs, cron, lastRun>>

(* handleUpdateConfig replacing the schedule; the registered jobs stay *)
HandleUpdateSchedule ==
    /\ \E sc \in SchedSchedules : schedule' = sc
    /\ schedule' # schedule
    /\ UNCHANGED <<gate, planVars, clockVars, captureCfg, engVars, screenshots, schedVars>>

SchedAdvanceClock ==
    /\ \E k \in 0..(MaxSchedSteps - 1) : now = Instant(k) /\ now' = Instant(k + 1)
    /\ jobs' = [k \in JobNames |-> [jobs[k] EXCEPT !.fired = FALSE]]
    /\ UNCHANGED <<gate, planVars, weekday, schedule, captureCfg, engVars, screenshots,
                   summaries, cronVars, lastRun>>

SchedNext ==
    \/ runAnalysis
    \/ runHourlyPreviousSegmentAnalysis
    \/ runDailyReport
    \/ \E j \in JobNames, out \in {"ok", "llm", "save"} : AnalyzePeriodReturn(j, out)
    \/ SaveScreenshot
    \/ HandleUpdateSchedule
    \/ SchedAdvanceClock

SpecSched == SchedInit /\ [][SchedNext]_vars

----------------------------------------------------------------------------
(* The hourly jobs over two hours, with the scheduling cron gives them:     *)
(* SpecSchedLive keeps the scheduler running over 09:50, 10:00, 10:05,      *)
(* 11:00 and 11:05 of a work day of the default schedule (the daily report  *)
(* fires at 17:50, after these instants). The catch-up job fires at every   *)
(* hh:05; the periodic job fires a whole number of intervals after Start,   *)
(* which may or may not be one of these instants. The AI service fails or   *)
(* succeeds until 11:00 and succeeds from then on.                          *)

LiveMinutes == <<590, 600, 605, 660, 665>>

AiRecovers == 11 * MinutesPerHour

SchedLiveInit ==
    /\ gate = NoGate
    /\ now = LiveMinutes[1]
    /\ weekday = 1
    /\ schedule = DefaultSchedule
    /\ captureCfg = DefaultCapture
    /\ EngineIdle
    /\ StorageIdle
    /\ jobs = [j \in JobNames |-> IdleJob]
    /\ cronDaily = DailyReportMinute(schedule)
    /\ cron = NoCron
    /\ PlannerIdle
    /\ lastRun = NoRun

(* AnalyzePeriod returning with what the AI service answered *)
LiveAnalyzePeriodReturn(j) ==
    \E out \in {"ok", "llm", "save"} :
        /\ now >= AiRecovers => out = "ok"
        /\ AnalyzePeriodReturn(j, out)

(* the next instant; cron has fired the catch-up job at hh:05 before *)
LiveAdvanceClock ==
    /\ now % MinutesPerHour = 5 => jobs["catchup"].fired
    /\ \E k \in 1..(Len(LiveMinutes) - 1) : now = LiveMinutes[k] /\ now' = LiveMinutes[k + 1]
    /\ jobs' = [k \in JobNames |-> [jobs[k] EXCEPT !.fired = FALSE]]
    /\ UNCHANGED <<gate, planVars, weekday, schedule, captureCfg, engVars, screenshots,
                   summaries, cronVars, lastRun>>

SchedLiveNext ==
    \/ runAnalysis
    \/ runHourlyPreviousSegmentAnalysis
    \/ \E j \in HourlyJobs : LiveAnalyzePeriodReturn(j)
    \/ SaveScreenshot
    \/ LiveAdvanceClock

SpecSchedLive ==
    /\ SchedLiveInit
    /\ [][SchedLiveNext]_vars
    /\ WF_vars(runHourlyPreviousSegmentAnalysis)
    /\ \A j \in HourlyJobs : WF_vars(LiveAnalyzePeriodReturn(j))
    /\ WF_vars(LiveAdvanceClock)

----------------------------------------------------------------------------
(* Properties of the hourly jobs (checked under SpecSched) *)

Window(r) == [start |-> r.start, end |-> r.end]

PairDone == lastRun.first.job # "none"

PrevHour == [start |-> HourFloor(now) - MinutesPerHour, end |-> HourFloor(now)]

SummaryStartsInside(w) ==
    \E r \in BagToSet(summaries) : r.start >= w.start /\ r.start < w.end

SummaryForExactly(w) ==
    \E r \in BagToSet(summaries) : r.start = w.start /\ r.end = w.end

(* the job j returned in this step because of the idempotency predicate *)
SkippedAsDone(j) ==
    /\ jobs'[j].pc = "idle"
    /\ lastRun'.job = j
    /\ lastRun'.res = "skipped: has summary"

(* the catch-up job gets as far as the idempotency predicate *)
CatchupReachesCheck ==
    /\ schedule.Enabled
    /\ ParseClock(schedule.StartTime).ok
    /\ ParseClock(schedule.EndTime).ok
    /\ PrevHour.end <= TodayAt(ParseClock(schedule.EndTime))
    /\ PrevHour.start >= TodayAt(ParseClock(schedule.StartTime))

C18_FailureLeavesWindowOpen ==
    [][/\ \A j \in HourlyJobs, out \in {"llm", "save"} :
             AnalyzePeriodReturn(j, out) =>
                 (summaries' = summaries /\ screenshots' = screenshots)
       /\ (/\ runHourlyPreviousSegmentAnalysis
           /\ CatchupReachesCheck
           /\ lastRun.job \in HourlyJobs
           /\ lastRun.res \in Failures
           /\ Window(lastRun) = PrevHour
           /\ lastRun.solo
           /\ ~lastRun.inRange0) =>
              /\ jobs'["catchup"].pc = "llm"
              /\ Window(jobs'["catchup"]) = PrevHour]_vars

(* the periodic job failed for 09:00-10:00 and the catch-up job analyses it again *)
C18_Witness ==
    /\ lastRun.job = "periodic"
    /\ lastRun.res \in Failures
    /\ lastRun.solo
    /\ jobs["catchup"].pc = "llm"
    /\ Window(jobs["catchup"]) = Window(lastRun)
    /\ summaries = EmptyBag
    /\ \A r \in BagToSet(screenshots) : ~r.analyzed

(* C19 (as claimed): with ScheduleConfig.enabled false, a previous-hour     *)
(* window inside the work hours that has frames and no summary is still     *)
(* analysed by the catch-up job.                                            *)
C19_CatchupIgnoresEnabled ==
    [][(/\ runHourlyPreviousSegmentAnalysis
        /\ ~schedule.Enabled
        /\ ParseClock(schedule.StartTime).ok
        /\ ParseClock(schedule.EndTime).ok
        /\ PrevHour.start >= TodayAt(ParseClock(schedule.StartTime))
        /\ PrevHour.end <= TodayAt(ParseClock(schedule.EndTime))
        /\ GetScreenshots(screenshots, PrevHour.start, PrevHour.end) # {}
        /\ ~SummaryStartsInside(PrevHour)) =>
           jobs'["catchup"].pc = "llm"]_vars

(* the window the periodic job works on in this step *)
PeriodicWindow ==
    IF jobs'["periodic"].pc = "llm" THEN Window(jobs'["periodic"]) ELSE Window(lastRun')

(* C20: whenever the periodic job fires, whatever the analysis interval and *)
(* the minute of the hour, the window it checks and analyses is the         *)
(* previous clock hour [currentHourFloor - 1h, currentHourFloor).           *)
C20_PeriodicPreviousClockHour ==
    [][runAnalysis =>
          /\ PeriodicWindow = PrevHour
          /\ (jobs'["periodic"].pc = "idle") =>
                (lastRun'.job = "periodic"
                 /\ lastRun'.res \in {"skipped: has summary", "failed: no screenshots"})]_vars

(* fired at 10:50 with an interval of 30 minutes, the job analyses 09:00-10:00 *)
C20_Witness ==
    /\ jobs["periodic"].pc = "llm"
    /\ now = 10 * MinutesPerHour + 50
    /\ schedule.AnalysisInterval = 30
    /\ Window(jobs["periodic"]) = [start |-> 9 * MinutesPerHour, end |-> 10 * MinutesPerHour]

(* today's work window of the configuration in force *)
WorkWindow ==
    [start |-> TodayAt(ParseClock(schedule.StartTime)),
     end |-> TodayAt(ParseClock(schedule.EndTime))]

(* C21: on every firing the daily report job calls the analyzer for today's *)
(* whole work window without consulting the idempotency predicate: it never *)
(* skips because summaries exist, and ends without an AI call only when the *)
(* analyzer finds no frame in the window.                                   *)
C21_DailyReportAlwaysAnalyses ==
    [][runDailyReport =>
          \/ /\ jobs'["daily"].pc = "llm"
             /\ Window(jobs'["daily"]) = WorkWindow
          \/ /\ jobs'["daily"].pc = "idle"
             /\ lastRun'.job = "daily"
             /\ Window(lastRun') = WorkWindow
             /\ lastRun'.res = "failed: no screenshots"
             /\ GetScreenshots(screenshots, WorkWindow.start, WorkWindow.end) = {}]_vars

(* the daily report is under way although an hourly summary of today exists *)
C21_Witness ==
    /\ jobs["daily"].pc = "llm"
    /\ Window(jobs["daily"]) = WorkWindow
    /\ SummaryStartsInside(WorkWindow)

(* C24: after Start() a change of the schedule configuration does not      *)
(* change the firing time of a registered job: the minute the daily report  *)
(* job was registered for never changes, a change of the configuration      *)
(* touches no job, and the daily report job fires at the registered minute  *)
(* only.                                                                    *)
C24_FiringTimesFixedAtStart ==
    [][/\ cronDaily' = cronDaily
       /\ HandleUpdateSchedule => UNCHANGED <<jobs, cronDaily, summaries, screenshots>>
       /\ runDailyReport => now = cronDaily]_vars

(* the daily report job fired at the minute registered at Start(), which is *)
(* no longer ten minutes before the configured work end                     *)
C24_Witness ==
    /\ jobs["daily"].fired
    /\ now = cronDaily
    /\ DailyReportMinute(schedule) # cronDaily
    /\ DailyReportMinute(schedule) # NoTime

(* C25: nothing between the idempotency check and the write prevents a     *)
(* second record: an hourly job whose analysis succeeds saves its summary   *)
(* whatever the table holds by then, so when the periodic and the catch-up  *)
(* job both pass the check for one window before either writes, the window  *)
(* ends up with two records of the same start and end.                      *)
C25_CheckThenWriteRace ==
    [][\A j \in HourlyJobs :
          AnalyzePeriodReturn(j, "ok") =>
              CopiesIn(Window(jobs[j]), summaries')
                  = CopiesIn(Window(jobs[j]), summaries) + 1]_vars

(* both hourly jobs ran beside each other for 09:00-10:00, which had no     *)
(* summary, and the table holds two records of that window                  *)
C25_Witness ==
    /\ lastRun.job \in HourlyJobs
    /\ lastRun.res = "saved"
    /\ ~lastRun.solo
    /\ ~lastRun.inRange0
    /\ Window(lastRun) = [start |-> 9 * MinutesPerHour, end |-> 10 * MinutesPerHour]
    /\ CopiesIn(Window(lastRun), summaries) = 2

(* C26: the catch-up job calls the analyzer only for a previous-hour window *)
(* that lies inside today's work window (workStart <= start, end <=         *)
(* workEnd) and for which the range query returns a frame; otherwise it     *)
(* returns without an AI call and without writing anything.                 *)
C26_CatchupOnlyInsideWithFrames ==
    [][runHourlyPreviousSegmentAnalysis =>
          IF jobs'["catchup"].pc = "llm"
          THEN /\ Window(jobs'["catchup"]) = PrevHour
               /\ WorkWindow.start <= PrevHour.start
               /\ PrevHour.end <= WorkWindow.end
               /\ GetScreenshots(screenshots, PrevHour.start, PrevHour.end) # {}
          ELSE /\ jobs'["catchup"].pc = "idle"
               /\ lastRun'.job = "catchup"
               /\ summaries' = summaries
               /\ screenshots' = screenshots]_vars

(* the catch-up job returned for 09:00-10:00, which holds frames, because   *)
(* the work window begins at 09:30                                          *)
C26_Witness ==
    /\ lastRun.job = "catchup"
    /\ lastRun.res = "skipped: before work start"
    /\ lastRun.had
    /\ ~lastRun.inRange0
    /\ summaries = EmptyBag

----------------------------------------------------------------------------
(* The segment planner of handleAnalyzeNow as a function of the day's       *)
(* capture timestamps.  The source holds the handler twice: once cutting    *)
(* the day by config.Schedule.AnalysisInterval ("interval"), once by clock  *)
(* hours ("hour"); SpecPlan draws the build together with the inputs.       *)

MaxPlanShots == 4   \* capture timestamps of one planned day

Builds == {"interval", "hour"}

(* 08:30, 09:03, 09:47, 10:00, 10:12, 11:00, 11:58 *)
PlanTimes == {510, 543, 587, 600, 612, 660, 718}

PlanIntervals == {MinutesPerHour, 30, 0, 0 - 30}

MinOf(S) == CHOOSE x \in S : \A y \in S : x <= y
MaxOf(S) == CHOOSE x \in S : \A y \in S : x >= y

Segment(start, end, hasData) == [Start |-> start, End |-> end, HasData |-> hasData]

IntervalAsConfigured(intervalMinutes) == intervalMinutes

(* interval build: if intervalMinutes <= 0 { intervalMinutes = 60 } *)
IntervalOrDefault(intervalMinutes) ==
    IF intervalMinutes <= 0 THEN MinutesPerHour ELSE intervalMinutes

(* interval build: the top of currentStart's hour plus the interval, or     *)
(* currentStart plus the interval when that is not after currentStart       *)
NextHour(currentStart, intervalMinutes) ==
    LET nextHour == HourFloor(currentStart) + intervalMinutes
    IN  IF currentStart >= nextHour THEN currentStart + intervalMinutes ELSE nextHour

SegmentEndUncapped(nextHour, lastTs) == nextHour

(* interval build: the last segment ends at lastTs *)
SegmentEnd(nextHour, lastTs) ==
    IF nextHour >= lastTs THEN lastTs ELSE nextHour

(* interval build: a frame at or after currentStart and at or before currentEnd *)
HasDataClosed(tss, currentStart, currentEnd) ==
    \E t \in tss : t >= currentStart /\ t <= currentEnd

(* hour build: a frame at or after currentStart and before currentEnd *)
HasDataHalfOpen(tss, currentStart, currentEnd) ==
    \E t \in tss : t >= currentStart /\ t < currentEnd

RECURSIVE PlanIntervalFromTestsStart(_, _, _, _)
PlanIntervalFromTestsStart(currentStart, lastTs, intervalMinutes, tss) ==
    LET currentEnd == SegmentEnd(NextHour(currentStart, intervalMinutes), lastTs)
        seg == Segment(currentStart, currentEnd, HasDataClosed(tss, currentStart, currentEnd))
    IN  IF currentStart >= lastTs THEN <<seg>>
        ELSE <<seg>> \o PlanIntervalFromTestsStart(currentEnd, lastTs, intervalMinutes, tss)

(* interval build: the for loop that appends the segments *)
RECURSIVE PlanIntervalFrom(_, _, _, _)
PlanIntervalFrom(currentStart, lastTs, intervalMinutes, tss) ==
    LET currentEnd == SegmentEnd(NextHour(currentStart, intervalMinutes), lastTs)
        seg == Segment(currentStart, currentEnd, HasDataClosed(tss, currentStart, currentEnd))
    IN  IF currentEnd >= lastTs THEN <<seg>>
        ELSE <<seg>> \o PlanIntervalFrom(currentEnd, lastTs, intervalMinutes, tss)

(* hour build: the for loop that appends the segments *)
RECURSIVE PlanHourFrom(_, _, _, _)
PlanHourFrom(currentStart, currentEnd, lastTs, tss) ==
    LET seg == Segment(currentStart, currentEnd, HasDataHalfOpen(tss, currentStart, currentEnd))
        nextEnd == IF currentEnd + MinutesPerHour > lastTs THEN lastTs
                   ELSE currentEnd + MinutesPerHour
    IN  IF currentEnd >= lastTs THEN <<seg>>
        ELSE <<seg>> \o PlanHourFrom(currentEnd, nextEnd, lastTs, tss)

(* handleAnalyzeNow, step 2: the segments of a day with the frames tss *)
PlanSegments(build, tss, intervalMinutes) ==
    LET firstTs == MinOf(tss)
        lastTs == MaxOf(tss)
        firstHourEnd == HourFloor(firstTs) + MinutesPerHour
    IN  IF build = "interval"
        THEN PlanIntervalFrom(firstTs, lastTs, IntervalOrDefault(intervalMinutes), tss)
        ELSE PlanHourFrom(firstTs, IF lastTs <= firstHourEnd THEN lastTs ELSE firstHourEnd,
                          lastTs, tss)

PlanInit ==
    /\ \E b \in Builds, tss \in SUBSET PlanTimes, iv \in PlanIntervals :
          /\ tss # {}
          /\ Cardinality(tss) <= MaxPlanShots
          /\ plan = [NoPlan EXCEPT !.build = b, !.ts = tss, !.interval = iv]
    /\ regen = NoRegen
    /\ clean = NoClean
    /\ gate = NoGate
    /\ now = 0
    /\ weekday = 0
    /\ schedule = DefaultSchedule
    /\ captureCfg = DefaultCapture
    /\ EngineIdle
    /\ StorageIdle
    /\ SchedulerIdle

CallPlanSegments ==
    /\ ~plan.done
    /\ plan' = [plan EXCEPT !.done = TRUE,
                            !.segments = PlanSegments(plan.build, plan.ts, plan.interval)]
    /\ UNCHANGED <<gate, regen, clean, clockVars, schedule, captureCfg, engVars, screenshots, schedVars>>

PlanNext == CallPlanSegments

SpecPlan == PlanInit /\ [][PlanNext]_vars

(* The same loop one iteration at a time: plan.segments holds the segments  *)
(* appended so far, and plan.done is set by the iteration that breaks.      *)

MaxPlanSegments == 8   \* iterations of the loop in one run

(* currentStart at the top of an iteration: firstTs, then the last currentEnd *)
currentStart(p) ==
    IF p.segments = <<>> THEN MinOf(p.ts) ELSE p.segments[Len(p.segments)].End

(* currentEnd of the iteration: the interval build computes it from nextHour *)
(* in the loop body, the hour build before the loop and at the loop's foot  *)
currentEnd(p) ==
    LET lastTs == MaxOf(p.ts)
        firstHourEnd == HourFloor(MinOf(p.ts)) + MinutesPerHour
    IN  IF p.build = "interval"
        THEN SegmentEnd(NextHour(currentStart(p), IntervalOrDefault(p.interval)), lastTs)
        ELSE IF p.segments = <<>>
        THEN (IF lastTs <= firstHourEnd THEN lastTs ELSE firstHourEnd)
        ELSE (IF currentStart(p) + MinutesPerHour > lastTs THEN lastTs
              ELSE currentStart(p) + MinutesPerHour)

(* one iteration of the for loop: test hasData, append, break or move on *)
PlanLoopIteration ==
    LET start == currentStart(plan)
        end == currentEnd(plan)
        hasData == IF plan.build = "interval" THEN HasDataClosed(plan.ts, start, end)
                   ELSE HasDataHalfOpen(plan.ts, start, end)
    IN  /\ ~plan.done
        /\ Len(plan.segments) < MaxPlanSegments
        /\ plan' = [plan EXCEPT !.segments = Append(@, Segment(start, end, hasData)),
                                !.done = (end >= MaxOf(plan.ts))]
        /\ UNCHANGED <<gate, regen, clean, clockVars, schedule, captureCfg, engVars,
                       screenshots, schedVars>>

(* the handler's goroutine is scheduled until it returns *)
SpecPlanLoop == PlanInit /\ [][PlanLoopIteration]_vars /\ WF_vars(PlanLoopIteration)

----------------------------------------------------------------------------
(* Properties of the segment planner (checked under SpecPlan) *)

(* C12: the produced segments, in order, exactly cover [firstTs, lastTs]:   *)
(* the first starts at firstTs, the last ends at lastTs, and every other    *)
(* segment starts where the one before it ends.                             *)
C12_PartitionLaw ==
    plan.done =>
        LET segs == plan.segments
        IN  /\ Len(segs) >= 1
            /\ segs[1].Start = MinOf(plan.ts)
            /\ segs[Len(segs)].End = MaxOf(plan.ts)
            /\ \A i \in 1..Len(segs) : segs[i].Start <= segs[i].End
            /\ \A i \in 1..(Len(segs) - 1) : segs[i + 1].Start = segs[i].End

(* a day from 08:30 to 11:58 was cut into four segments *)
C12_Witness ==
    /\ plan.done
    /\ Len(plan.segments) = 4
    /\ plan.segments[1].Start = 510
    /\ plan.segments[4].End = 718

(* C13 (as claimed): a segment is marked hasData = false if and only if no  *)
(* fetched frame has a timestamp t with segStart <= t < segEnd; a frame     *)
(* exactly on segEnd does not make the segment hasData = true.  (Stated for *)
(* the segments before the last, whose end is a boundary.)                  *)
C13_HalfOpenHasData ==
    plan.done =>
        \A i \in 1..(Len(plan.segments) - 1) :
            plan.segments[i].HasData <=>
                (\E t \in plan.ts : t >= plan.segments[i].Start /\ t < plan.segments[i].End)

(* C14 (as claimed): the frames 09:03, 09:47, 10:12 and 11:58 with an       *)
(* interval of 60 minutes give exactly [09:03,10:00), [10:00,11:00) and     *)
(* [11:00,11:58], all three with hasData = true.                            *)
C14_ScenarioThreeSegments ==
    (plan.done /\ plan.ts = {543, 587, 612, 718} /\ plan.interval = MinutesPerHour)
        => plan.segments = <<Segment(543, 600, TRUE), Segment(600, 660, TRUE),
                             Segment(660, 718, TRUE)>>

(* C27 (as claimed): for every configured interval and every firstTs, each  *)
(* boundary between two segments lies a whole number of intervals after the *)
(* top of firstTs's hour; none lies at an offset from firstTs or from the   *)
(* boundary before it.                                                      *)
C27_BoundariesOnIntervalMarks ==
    plan.done =>
        \A i \in 1..(Len(plan.segments) - 1) :
            (plan.segments[i].End - HourFloor(MinOf(plan.ts)))
                % IntervalOrDefault(plan.interval) = 0

(* C28: when the last frame of the day lies exactly on an interval mark,    *)
(* the planner ends the final segment on that mark and stops: exactly one   *)
(* segment ends at lastTs, and no segment after the first starts there.     *)
C28_LastOnBoundaryStops ==
    (plan.done /\ MaxOf(plan.ts) % IntervalOrDefault(plan.interval) = 0) =>
        LET segs == plan.segments
            lastTs == MaxOf(plan.ts)
        IN  /\ segs[Len(segs)].End = lastTs
            /\ Cardinality({i \in 1..Len(segs) : segs[i].End = lastTs}) = 1
            /\ \A i \in 2..Len(segs) : segs[i].Start < lastTs

(* a day from 09:03 to 11:00 sharp, cut by the hour, ends with 10:00-11:00 *)
C28_Witness ==
    /\ plan.done
    /\ MinOf(plan.ts) = 543
    /\ MaxOf(plan.ts) = 660
    /\ plan.interval = MinutesPerHour
    /\ Len(plan.segments) = 2
    /\ plan.segments[2].Start = 600
    /\ plan.segments[2].End = 660

(* C39 (as claimed): every planned segment starts strictly before it ends,  *)
(* for every non-empty list of frames, a day with a single frame (firstTs = *)
(* lastTs) included.                                                        *)
C39_SegmentsNotEmpty ==
    plan.done =>
        \A i \in 1..Len(plan.segments) : plan.segments[i].Start < plan.segments[i].End

(* the same for the days whose first and last frame differ *)
C39_SegmentsNotEmptyOverSeveralInstants ==
    (plan.done /\ MinOf(plan.ts) < MaxOf(plan.ts)) =>
        \A i \in 1..Len(plan.segments) : plan.segments[i].Start < plan.segments[i].End

(* C40: segment planning terminates for every non-empty list of frames and  *)
(* every configured interval, 0 and negative values included: each          *)
(* iteration that does not end the loop moves the segment start strictly    *)
(* forward, the number of segments stays within the iterations allowed, and *)
(* the loop ends.                                                           *)
C40_PlanningTerminates ==
    /\ [][PlanLoopIteration =>
             \/ plan'.done /\ currentEnd(plan) >= MaxOf(plan.ts)
             \/ ~plan'.done /\ currentStart(plan') > currentStart(plan)]_vars
    /\ [](~plan.done => Len(plan.segments) < MaxPlanSegments)
    /\ <>(plan.done)

(* the loop ended after several iterations under an interval of 0 or below *)
C40_Witness ==
    /\ plan.done
    /\ plan.build = "interval"
    /\ plan.interval <= 0
    /\ Len(plan.segments) >= 3

----------------------------------------------------------------------------
(* handleAnalyzeNow ("regenerate today") as a process over the storage      *)
(* tables: SpecRegen draws the build, the frames and the summaries the      *)
(* tables hold at noon, and runs the handler, whose database writes and AI  *)
(* calls succeed or fail, beside one scheduler job that saves a summary.    *)

MaxRegens == 2   \* invocations of the handler

RegenNow == 12 * MinutesPerHour

(* 08:30, 10:00, 11:58 *)
RegenTimes == {510, 600, 718}

(* summaries in the table before the handler runs: two of today (09:00 and  *)
(* 10:00) and one of yesterday (10:00)                                      *)
RegenOldSummaries ==
    { [start |-> 540, end |-> 600], [start |-> 600, end |-> 660],
      [start |-> 600 - MinutesPerDay, end |-> 660 - MinutesPerDay] }

RegenIntervals == {MinutesPerHour, 30}

(* time.Date(now.Year(), now.Month(), now.Day(), 0, 0, 0, 0, now.Location()) *)
StartOfDay(t) == t - (t % MinutesPerDay)

(* the rows of a table that start on the day of date *)
RowsOfDate(table, date) ==
    {r \in BagToSet(table) :
        r.start >= StartOfDay(date) /\ r.start < StartOfDay(date) + MinutesPerDay}

(* the table restricted to some of its rows *)
RowsAsBag(table, rows) == [r \in rows |-> CopiesIn(r, table)]

DeleteWorkSummariesForDateKeepsRows(table, date) == table

(* Manager.DeleteWorkSummariesForDate:                                      *)
(* DELETE FROM work_summaries WHERE start_time >= startOfDay AND            *)
(* start_time < endOfDay                                                    *)
DeleteWorkSummariesForDate(table, date) ==
    RowsAsBag(table, BagToSet(table) \ RowsOfDate(table, date))

RegenInit ==
    /\ \E b \in Builds : plan = [NoPlan EXCEPT !.build = b]
    /\ regen = NoRegen
    /\ clean = NoClean
    /\ gate = NoGate
    /\ now = RegenNow
    /\ weekday = 1
    /\ \E iv \in RegenIntervals : schedule = [DefaultSchedule EXCEPT !.AnalysisInterval = iv]
    /\ captureCfg = DefaultCapture
    /\ EngineIdle
    /\ \E tss \in SUBSET RegenTimes : screenshots = SetToBag({Shot(t, 0) : t \in tss})
    /\ \E old \in SUBSET RegenOldSummaries : summaries = SetToBag(old)
    /\ SchedulerIdle

(* the handler returns an error answer to its caller *)
RegenReturn(answer) ==
    regen' = [regen EXCEPT !.pc = "idle", !.response = answer]

(* the loop over the segments has handled segment k and written result *)
RegenSegmentDone(result) ==
    regen' = IF regen.k = Len(regen.segments)
             THEN [regen EXCEPT !.pc = "idle", !.response = "ok",
                                !.results = Append(@, result)]
             ELSE [regen EXCEPT !.pc = "segment", !.k = @ + 1,
                                !.results = Append(@, result)]

RegenSegmentFailedRestoring(answer) ==
    /\ RegenReturn(answer)
    /\ summaries' = regen.before
    /\ UNCHANGED screenshots

(* the return of the handler on the error of a segment's save or analysis *)
RegenSegmentFailed(answer) ==
    /\ RegenReturn(answer)
    /\ UNCHANGED <<summaries, screenshots>>

RegenBeginDeleteFirst(dbErr) ==
    LET rows == GetScreenshots(screenshots, StartOfDay(now), now)
    IN  /\ regen.pc = "idle"
        /\ regen.calls < MaxRegens
        /\ ~dbErr
        /\ summaries' = DeleteWorkSummariesForDate(summaries, now)
        /\ regen' = IF rows = {}
                    THEN [regen EXCEPT !.calls = @ + 1, !.response = "error: no data"]
                    ELSE [regen EXCEPT !.calls = @ + 1, !.pc = "segment", !.k = 1,
                              !.segments = PlanSegments(plan.build, {r.ts : r \in rows},
                                                        schedule.AnalysisInterval),
                              !.results = <<>>, !.response = "none", !.aiCalls = 0,
                              !.before = summaries, !.solo = TRUE]
        /\ UNCHANGED <<gate, plan, clean, clockVars, schedule, captureCfg, engVars, screenshots,
                       jobs, cronVars, lastRun>>

(* handleAnalyzeNow, steps 1 and 2: fetch today's frames, answer at once    *)
(* when the fetch fails or there are none, else plan the segments           *)
RegenBegin(dbErr) ==
    LET rows == GetScreenshots(screenshots, StartOfDay(now), now)
    IN  /\ regen.pc = "idle"
        /\ regen.calls < MaxRegens
        /\ regen' = IF dbErr
                    THEN [regen EXCEPT !.calls = @ + 1, !.response = "error: fetch"]
                    ELSE IF rows = {}
                    THEN [regen EXCEPT !.calls = @ + 1, !.response = "error: no data"]
                    ELSE [regen EXCEPT !.calls = @ + 1, !.pc = "delete", !.k = 1,
                              !.segments = PlanSegments(plan.build, {r.ts : r \in rows},
                                                        schedule.AnalysisInterval),
                              !.results = <<>>, !.response = "none", !.aiCalls = 0,
                              !.before = summaries, !.solo = TRUE]
        /\ UNCHANGED <<gate, plan, clean, clockVars, schedule, captureCfg, engVars, screenshots,
                       schedVars>>

(* handleAnalyzeNow, step 3: clear today's summaries *)
RegenDelete(dbErr) ==
    /\ regen.pc = "delete"
    /\ IF dbErr
       THEN /\ RegenReturn("error: delete")
            /\ UNCHANGED summaries
       ELSE /\ regen' = [regen EXCEPT !.pc = "segment"]
            /\ summaries' = DeleteWorkSummariesForDate(summaries, now)
    /\ UNCHANGED <<gate, plan, clean, clockVars, schedule, captureCfg, engVars, screenshots,
                   jobs, cronVars, lastRun>>

(* the fixed Summary text of a placeholder ("no screen content yet") *)
NoContentText == "no screen content yet"

(* emptySummary: the placeholder of a segment; empty stands for             *)
(* Activities: []models.Activity{} and AppUsage: map[string]int{}           *)
EmptySummary(seg) ==
    [start |-> seg.Start, end |-> seg.End, empty |-> TRUE, Summary |-> NoContentText]

(* the summary AnalyzePeriod returns for a segment *)
AnalyzedSummary(seg) ==
    [start |-> seg.Start, end |-> seg.End, empty |-> FALSE, Summary |-> "from the AI service"]

RegenPlaceholderAnalyzes(dbErr) ==
    LET seg == regen.segments[regen.k]
        last == regen.k = Len(regen.segments)
    IN  /\ regen.pc = "segment"
        /\ ~seg.HasData
        /\ IF dbErr
           THEN RegenSegmentFailed("error: save placeholder")
           ELSE /\ summaries' = SaveWorkSummary(summaries, seg.Start, seg.End)
                /\ regen' = [regen EXCEPT !.pc = IF last THEN "idle" ELSE "segment",
                                          !.k = IF last THEN @ ELSE @ + 1,
                                          !.response = IF last THEN "ok" ELSE @,
                                          !.aiCalls = @ + 1,
                                          !.results = Append(@, EmptySummary(seg))]
                /\ UNCHANGED screenshots
        /\ UNCHANGED <<gate, plan, clean, clockVars, schedule, captureCfg, engVars,
                       jobs, cronVars, lastRun>>

(* handleAnalyzeNow, step 4 for a segment without frames: the placeholder *)
RegenPlaceholder(dbErr) ==
    LET seg == regen.segments[regen.k]
    IN  /\ regen.pc = "segment"
        /\ ~seg.HasData
        /\ IF dbErr
           THEN RegenSegmentFailed("error: save placeholder")
           ELSE /\ summaries' = SaveWorkSummary(summaries, seg.Start, seg.End)
                /\ RegenSegmentDone(EmptySummary(seg))
                /\ UNCHANGED screenshots
        /\ UNCHANGED <<gate, plan, clean, clockVars, schedule, captureCfg, engVars,
                       jobs, cronVars, lastRun>>

(* handleAnalyzeNow, step 4 for a segment with frames: Analyzer.AnalyzePeriod *)
(* up to the call of the AI service                                         *)
RegenAnalyzeCall ==
    LET seg == regen.segments[regen.k]
        rows == GetScreenshots(screenshots, seg.Start, seg.End)
    IN  /\ regen.pc = "segment"
        /\ seg.HasData
        /\ IF rows = {}
           THEN RegenSegmentFailed("error: no screenshots")
           ELSE /\ regen' = [regen EXCEPT !.pc = "llm", !.aiCalls = @ + 1,
                                          !.shots = {r.ts : r \in rows}]
                /\ UNCHANGED <<summaries, screenshots>>
        /\ UNCHANGED <<gate, plan, clean, clockVars, schedule, captureCfg, engVars,
                       jobs, cronVars, lastRun>>

(* Analyzer.AnalyzePeriod from the answer of the AI service to its return,  *)
(* and the handler's handling of the result                                 *)
RegenAnalyzeReturn(out) ==
    LET seg == regen.segments[regen.k]
    IN  /\ regen.pc = "llm"
        /\ IF out = "ok"
           THEN /\ summaries' = SaveWorkSummary(summaries, seg.Start, seg.End)
                /\ screenshots' = MarkScreenshotAnalyzed(screenshots, regen.shots)
                /\ RegenSegmentDone(AnalyzedSummary(seg))
           ELSE RegenSegmentFailed("error: " \o out)
        /\ UNCHANGED <<gate, plan, clean, clockVars, schedule, captureCfg, engVars,
                       jobs, cronVars, lastRun>>

(* a scheduler job (runAnalysis at noon) saves the summary of the previous  *)
(* hour while or after the handler runs                                     *)
SchedulerSavesSummary ==
    LET currentHour == HourFloor(now)
        row == [start |-> currentHour - MinutesPerHour, end |-> currentHour]
    IN  /\ regen.calls > 0
        /\ ~HasWorkSummaryForRange(summaries, row.start, row.end)
        /\ summaries' = SaveWorkSummary(summaries, row.start, row.end)
        /\ regen' = [regen EXCEPT !.solo = FALSE]
        /\ UNCHANGED <<gate, plan, clean, clockVars, schedule, captureCfg, engVars, screenshots,
                       jobs, cronVars, lastRun>>

RegenNext ==
    \/ \E dbErr \in BOOLEAN : RegenBegin(dbErr)
    \/ \E dbErr \in BOOLEAN : RegenDelete(dbErr)
    \/ \E dbErr \in BOOLEAN : RegenPlaceholder(dbErr)
    \/ RegenAnalyzeCall
    \/ \E out \in {"ok", "llm", "save"} : RegenAnalyzeReturn(out)
    \/ SchedulerSavesSummary

SpecRegen == RegenInit /\ [][RegenNext]_vars

----------------------------------------------------------------------------
(* Properties of handleAnalyzeNow (checked under SpecRegen) *)

(* today's rows of the summaries table *)
TodayRows == RowsAsBag(summaries, RowsOfDate(summaries, now))

(* the rows of the other days *)
OtherDays(table) == RowsAsBag(table, BagToSet(table) \ RowsOfDate(table, now))

SegmentKey(i) == [start |-> regen.segments[i].Start, end |-> regen.segments[i].End]

(* one row keyed by (start, end) for each of the first n planned segments *)
WrittenRows(n) ==
    [r \in {SegmentKey(i) : i \in 1..n} |-> Cardinality({i \in 1..n : SegmentKey(i) = r})]

SegmentFailures ==
    {"error: save placeholder", "error: no screenshots", "error: llm", "error: save"}

(* C15: when no frame of today exists, the handler answers with the no-data *)
(* error before touching persistence: no summary is deleted or written, no  *)
(* frame is changed and the AI service is not called.                       *)
C15_NoDataFailsFirst ==
    [][\A dbErr \in BOOLEAN :
          (/\ RegenBegin(dbErr)
           /\ ~dbErr
           /\ GetScreenshots(screenshots, StartOfDay(now), now) = {}) =>
              /\ regen'.response = "error: no data"
              /\ regen'.pc = "idle"
              /\ regen'.aiCalls = regen.aiCalls
              /\ summaries' = summaries
              /\ screenshots' = screenshots]_vars

(* the handler refused a day without frames whose summaries are still there *)
C15_Witness ==
    /\ regen.response = "error: no data"
    /\ screenshots = EmptyBag
    /\ RowsOfDate(summaries, now) # {}

(* C16: once the delete has run, and while no other writer saved a summary, *)
(* today's rows are exactly the rows this run has written so far (so every  *)
(* earlier row of today is gone before the first is written); after a       *)
(* successful run they are exactly one row per produced segment, keyed by   *)
(* (start, end), and the rows of other days are as before.                  *)
C16_FullSupersession ==
    /\ (regen.pc \in {"segment", "llm"} /\ regen.solo) =>
          /\ TodayRows = WrittenRows(Len(regen.results))
          /\ OtherDays(summaries) = OtherDays(regen.before)
    /\ (regen.pc = "idle" /\ regen.response = "ok" /\ regen.solo) =>
          /\ Len(regen.results) = Len(regen.segments)
          /\ TodayRows = WrittenRows(Len(regen.segments))
          /\ \A r \in RowsOfDate(summaries, now) : CopiesIn(r, summaries) = 1
          /\ OtherDays(summaries) = OtherDays(regen.before)

(* a successful run replaced two rows of today by four, one of them a placeholder *)
C16_Witness ==
    /\ regen.pc = "idle" /\ regen.response = "ok" /\ regen.solo
    /\ Cardinality(RowsOfDate(regen.before, now)) = 2
    /\ OtherDays(regen.before) # EmptyBag
    /\ Len(regen.segments) = 4
    /\ \E i \in 1..4 : regen.results[i].empty
    /\ \E i \in 1..4 : ~regen.results[i].empty

(* C17: when the save or the analysis of segment k fails, the handler       *)
(* returns that error at once, the rows of the segments before k remain,    *)
(* no row exists for segment k or a later one, and the rows deleted at the  *)
(* start are not restored; when the delete itself fails nothing changed.    *)
C17_StopAndReport ==
    /\ (regen.pc = "idle" /\ regen.response \in SegmentFailures /\ regen.solo) =>
          /\ Len(regen.results) = regen.k - 1
          /\ TodayRows = WrittenRows(regen.k - 1)
          /\ OtherDays(summaries) = OtherDays(regen.before)
    /\ (regen.pc = "idle" /\ regen.response = "error: delete" /\ regen.solo) =>
          summaries = regen.before

(* segment 2 failed: the row of segment 1 is there, an earlier row of today is gone *)
C17_Witness ==
    /\ regen.pc = "idle" /\ regen.response \in SegmentFailures /\ regen.solo
    /\ regen.k = 2
    /\ SegmentKey(1) \in BagToSet(summaries)
    /\ \E r \in RowsOfDate(regen.before, now) : r \notin BagToSet(summaries)

(* C38 (as claimed): when a scheduler job saves its summary while the       *)
(* handler runs and the handler then completes successfully, today's rows   *)
(* are one row per segment of this run, and no row of the job overlaps a    *)
(* segment of the run.                                                      *)
C38_OneGenerationPerDay ==
    [][(/\ regen.pc # "idle"
        /\ regen'.pc = "idle"
        /\ regen'.response = "ok") =>
           \A r \in RowsOfDate(summaries', now') :
               \/ /\ \E i \in 1..Len(regen'.segments) :
                        r = [start |-> regen'.segments[i].Start,
                             end |-> regen'.segments[i].End]
                  /\ CopiesIn(r, summaries') = 1
               \/ \A i \in 1..Len(regen'.segments) :
                     \/ r.end <= regen'.segments[i].Start
                     \/ regen'.segments[i].End <= r.start]_vars

(* C29: for a segment with hasData = false the handler saves a placeholder  *)
(* with the fixed text and empty collections and does not call the          *)
(* analyzer; for a segment with hasData = true it calls the analyzer once,  *)
(* with exactly the segment's (start, end): a call is made only for the     *)
(* segment in turn, which has no result yet, and every analysed result is   *)
(* appended by the return of that call.                                     *)
C29_PlaceholderOrOneCall ==
    [][/\ (regen.pc = "segment" /\ ~regen.segments[regen.k].HasData) =>
             LET seg == regen.segments[regen.k]
             IN  /\ regen'.aiCalls = regen.aiCalls
                 /\ regen'.pc # "llm"
                 /\ Len(regen'.results) = Len(regen.results) + 1 =>
                        /\ regen'.results[regen.k] =
                               [start |-> seg.Start, end |-> seg.End, empty |-> TRUE,
                                Summary |-> NoContentText]
                        /\ summaries' = SaveWorkSummary(summaries, seg.Start, seg.End)
       /\ regen'.aiCalls = regen.aiCalls + 1 =>
             /\ regen.pc = "segment" /\ regen'.pc = "llm" /\ regen'.k = regen.k
             /\ Len(regen.results) = regen.k - 1
             /\ regen.segments[regen.k].HasData
             /\ regen'.shots =
                    {r.ts : r \in GetScreenshots(screenshots, regen.segments[regen.k].Start,
                                                 regen.segments[regen.k].End)}
       /\ \A i \in 1..Len(regen'.results) :
             /\ regen'.results[i].empty = ~regen'.segments[i].HasData
             /\ regen'.results[i].start = regen'.segments[i].Start
             /\ regen'.results[i].end = regen'.segments[i].End
       /\ (/\ Len(regen'.results) = Len(regen.results) + 1
           /\ ~regen'.results[Len(regen'.results)].empty) =>
              /\ regen.pc = "llm"
              /\ regen'.aiCalls = regen.aiCalls]_vars

(* a run over three segments ended with one placeholder and two analyses *)
C29_Witness ==
    /\ regen.pc = "idle" /\ regen.response = "ok"
    /\ Len(regen.results) = 3
    /\ regen.aiCalls = 2
    /\ \E i \in 1..3 : /\ ~regen.segments[i].HasData
                       /\ regen.results[i].Summary = NoContentText
                       /\ SegmentKey(i) \in BagToSet(summaries)

----------------------------------------------------------------------------
(* The storage tables under every operation that writes them: SpecStore     *)
(* draws the frames of the last days and the retention horizon, and runs    *)
(* the clean-up job beside the capture engine's saves, one analysis         *)
(* (Analyzer.AnalyzePeriod, whoever calls it) and the delete of today's     *)
(* summaries by handleAnalyzeNow, over the clean-up hours of two days.      *)

MaxStoreDays == 1   \* days the clock of SpecStore advances

(* "0 3 * * *": 03:00 of the first day *)
StoreNow == 3 * MinutesPerHour

(* frames in the table at the start: 10:00 two days ago, 10:00 yesterday,   *)
(* 02:00 today                                                              *)
StoreOldTimes == {600 - 2 * MinutesPerDay, 600 - MinutesPerDay, 120}

StoreRetentions == {1, 2}

(* the windows analysed: 01:00-02:00 and 02:00-03:00 of the first day *)
StoreWindows == {[start |-> 60, end |-> 120], [start |-> 120, end |-> 180]}

(* time.Now().AddDate(0, 0, -retentionDays) *)
CutoffDate(t, retentionDays) == t - retentionDays * MinutesPerDay

DeleteOldScreenshotsOnePerRun(table, t, retentionDays) ==
    LET old == {r \in BagToSet(table) : r.ts < CutoffDate(t, retentionDays)}
    IN  IF old = {} THEN table
        ELSE LET first == CHOOSE r \in old : \A q \in old : r.ts <= q.ts
             IN  RowsAsBag(table, BagToSet(table) \ {first})

(* Manager.DeleteOldScreenshots: DELETE FROM screenshots WHERE timestamp < cutoffDate *)
DeleteOldScreenshots(table, t, retentionDays) ==
    RowsAsBag(table, {r \in BagToSet(table) : ~(r.ts < CutoffDate(t, retentionDays))})

(* the engine after its first Start(): one capture loop waits for its tick *)
StoreEngineRunning ==
    /\ running = TRUE
    /\ cur = 1
    /\ cancelled = {}
    /\ stopped = {}
    /\ tickC = {}
    /\ loops = <<"select">>
    /\ autoPc = [start |-> "idle", stop |-> "idle"]
    /\ lastCapture = NoTime
    /\ lastEvent = "Start: nil"
    /\ okCalls = <<"Start">>

StoreInit ==
    /\ plan = NoPlan
    /\ regen = NoRegen
    /\ \E days \in StoreRetentions : clean = [NoClean EXCEPT !.retention = days]
    /\ gate = NoGate
    /\ now = StoreNow
    /\ weekday = 1
    /\ schedule = DefaultSchedule
    /\ captureCfg = DefaultCapture
    /\ StoreEngineRunning
    /\ \E tss \in SUBSET StoreOldTimes : screenshots = SetToBag({Shot(t, 0) : t \in tss})
    /\ summaries = EmptyBag
    /\ SchedulerIdle

(* Scheduler.runCleanup with Manager.DeleteOldScreenshots; dbErr: the query *)
(* or the delete fails                                                      *)
runCleanup(dbErr) ==
    LET cutoff == CutoffDate(now, clean.retention)
        kept == DeleteOldScreenshots(screenshots, now, clean.retention)
        again == clean.last.ok /\ ~clean.since /\ clean.last.cutoff = cutoff
    IN  /\ IF dbErr
           THEN /\ clean' = [clean EXCEPT
                                 !.last = [ok |-> FALSE, deleted |-> 0, cutoff |-> cutoff,
                                           again |-> FALSE, prevDeleted |-> 0]]
                /\ UNCHANGED screenshots
           ELSE /\ screenshots' = kept
                /\ clean' = [clean EXCEPT !.since = FALSE,
                                 !.last = [ok |-> TRUE,
                                           deleted |-> BagCardinality(screenshots)
                                                         - BagCardinality(kept),
                                           cutoff |-> cutoff, again |-> again,
                                           prevDeleted |-> IF again THEN clean.last.deleted
                                                           ELSE 0]]
        /\ UNCHANGED <<gate, plan, regen, clockVars, schedule, captureCfg, engVars, schedVars>>

(* Manager.SaveScreenshot of a frame the capture engine took at this instant *)
StoreSaveScreenshot ==
    /\ \A r \in BagToSet(screenshots) : r.ts # now
    /\ screenshots' = screenshots (+) SetToBag({Shot(now, 0)})
    /\ clean' = [clean EXCEPT !.since = TRUE]
    /\ UNCHANGED <<gate, plan, regen, clockVars, schedule, captureCfg, engVars, schedVars>>

(* Analyzer.AnalyzePeriod, steps 1 to 3: the frames of the window are       *)
(* fetched and sent to the AI service                                       *)
StoreAnalyzeCall(w) ==
    LET rows == GetScreenshots(screenshots, w.start, w.end)
    IN  /\ clean.ai.pc = "idle"
        /\ BagCardinality(summaries) < MaxSummaries
        /\ rows # {}
        /\ clean' = [clean EXCEPT !.ai = [pc |-> "llm", start |-> w.start, end |-> w.end,
                                          shots |-> {r.ts : r \in rows}, saved |-> FALSE]]
        /\ UNCHANGED <<gate, plan, regen, clockVars, schedule, captureCfg, engVars,
                       screenshots, schedVars>>

StoreAnalyzeSaveMarksAnyway(out) ==
    /\ clean.ai.pc = "llm"
    /\ IF out = "ok"
       THEN /\ summaries' = SaveWorkSummary(summaries, clean.ai.start, clean.ai.end)
            /\ clean' = [clean EXCEPT !.ai.pc = "mark", !.ai.saved = TRUE]
       ELSE /\ clean' = [clean EXCEPT !.ai.pc = "mark"]
            /\ UNCHANGED summaries
    /\ UNCHANGED <<gate, plan, regen, clockVars, schedule, captureCfg, engVars,
                   screenshots, jobs, cronVars, lastRun>>

(* Analyzer.AnalyzePeriod, steps 3 to 5: the answer of the AI service and   *)
(* the save of the summary; saved records that the summary was persisted    *)
StoreAnalyzeSave(out) ==
    /\ clean.ai.pc = "llm"
    /\ IF out = "ok"
       THEN /\ summaries' = SaveWorkSummary(summaries, clean.ai.start, clean.ai.end)
            /\ clean' = [clean EXCEPT !.ai.pc = "mark", !.ai.saved = TRUE]
       ELSE /\ clean' = [clean EXCEPT !.ai = NoAnalysis]
            /\ UNCHANGED summaries
    /\ UNCHANGED <<gate, plan, regen, clockVars, schedule, captureCfg, engVars,
                   screenshots, jobs, cronVars, lastRun>>

(* Analyzer.AnalyzePeriod, step 7: every fetched frame is marked analyzed *)
StoreAnalyzeMark ==
    /\ clean.ai.pc = "mark"
    /\ screenshots' = MarkScreenshotAnalyzed(screenshots, clean.ai.shots)
    /\ clean' = [clean EXCEPT !.ai = NoAnalysis]
    /\ UNCHANGED <<gate, plan, regen, clockVars, schedule, captureCfg, engVars, schedVars>>

(* handleAnalyzeNow, step 3: Manager.DeleteWorkSummariesForDate(now) *)
StoreDeleteSummaries ==
    /\ RowsOfDate(summaries, now) # {}
    /\ summaries' = DeleteWorkSummariesForDate(summaries, now)
    /\ UNCHANGED <<gate, planVars, clockVars, schedule, captureCfg, engVars,
                   screenshots, jobs, cronVars, lastRun>>

(* handleUpdateConfig replacing config.Storage.RetentionDays *)
HandleUpdateRetention ==
    /\ \E days \in StoreRetentions : clean' = [clean EXCEPT !.retention = days]
    /\ clean' # clean
    /\ UNCHANGED <<gate, plan, regen, clockVars, schedule, captureCfg, engVars,
                   screenshots, schedVars>>

StoreAdvanceDay ==
    /\ now < StoreNow + MaxStoreDays * MinutesPerDay
    /\ now' = now + MinutesPerDay
    /\ weekday' = (weekday + 1) % 7
    /\ UNCHANGED <<gate, planVars, schedule, captureCfg, engVars, screenshots, schedVars>>

StoreNext ==
    \/ \E dbErr \in BOOLEAN : runCleanup(dbErr)
    \/ StoreSaveScreenshot
    \/ \E w \in StoreWindows : StoreAnalyzeCall(w)
    \/ \E out \in {"ok", "llm", "save"} : StoreAnalyzeSave(out)
    \/ StoreAnalyzeMark
    \/ StoreDeleteSummaries
    \/ HandleUpdateRetention
    \/ HandleStopService
    \/ StoreAdvanceDay

SpecStore == StoreInit /\ [][StoreNext]_vars

----------------------------------------------------------------------------
(* Properties of the storage tables (checked under SpecStore) *)

(* C22: a clean-up run that follows a successful clean-up run, with no      *)
(* frame saved between the two and the same cutoff, deletes 0 rows and      *)
(* leaves the screenshots table as it was.                                  *)
C22_CleanupIdempotent ==
    [][\A dbErr \in BOOLEAN :
          (/\ runCleanup(dbErr)
           /\ ~dbErr
           /\ clean.last.ok
           /\ ~clean.since
           /\ clean.last.cutoff = CutoffDate(now, clean.retention)) =>
              /\ clean'.last.deleted = 0
              /\ screenshots' = screenshots]_vars

(* the second of two runs in succession deleted nothing after the first deleted two frames *)
C22_Witness ==
    /\ clean.last.ok
    /\ clean.last.again
    /\ clean.last.prevDeleted = 2
    /\ clean.last.deleted = 0
    /\ screenshots # EmptyBag

(* the rows of a table taken at the instant and from the display of row r *)
SameFrame(table, r) == {q \in BagToSet(table) : q.ts = r.ts /\ q.idx = r.idx}

C34_WindowsHalfOpen ==
    clean.ai.pc # "idle" =>
        \A t \in clean.ai.shots : clean.ai.start <= t /\ t < clean.ai.end

----------------------------------------------------------------------------
(* The scheduler's life cycle: SpecCron draws a schedule and a weekday and  *)
(* runs Scheduler.Start and Scheduler.Stop, handleUpdateConfig and the cron *)
(* library's dispatch over the instants of a day at which an entry can      *)
(* be due.  A dispatch step stands for the cron calling the job function;   *)
(* the jobs themselves are the actions of SpecSched, Spec and SpecStore.    *)

MaxCronStarts == 2   \* calls of Start() that register entries

(* 00:00, 03:00, 09:00, 09:05, 17:50, 18:00 *)
CronMinutes == <<0, 180, 540, 545, 1070, 1080>>

(* the default schedule 09:00-18:00 on Monday to Friday, the same with a    *)
(* start or an end that does not parse, with no work day, with the weekend  *)
CronSchedules ==
    { DefaultSchedule,
      [DefaultSchedule EXCEPT !.StartTime = TNoColon],
      [DefaultSchedule EXCEPT !.EndTime = TEmpty],
      [DefaultSchedule EXCEPT !.WorkDays = <<>>],
      [DefaultSchedule EXCEPT !.WorkDays = <<0, 6>>] }

(* Monday, Saturday *)
CronFirstDays == {1, 6}

(* workDaysToCron: "*" for an empty list and for seven days, else the days  *)
(* joined by commas                                                         *)
workDaysToCron(workDays) ==
    IF Len(workDays) = 0 THEN [all |-> TRUE, list |-> <<>>]
    ELSE IF Len(workDays) = 7 THEN [all |-> TRUE, list |-> <<>>]
    ELSE [all |-> FALSE, list |-> workDays]

(* the entry of "@every Nm" *)
EveryEntry(job, minutes) ==
    [job |-> job, every |-> minutes, at |-> NoTime, hourly |-> FALSE,
     dow |-> [all |-> TRUE, list |-> <<>>]]

(* the entry of "minute hour * * dow" *)
DailyEntry(job, minuteOfDay, dow) ==
    [job |-> job, every |-> 0, at |-> minuteOfDay, hourly |-> FALSE, dow |-> dow]

(* the entry of "minute * * * *" *)
HourlyEntry(job, minute) ==
    [job |-> job, every |-> 0, at |-> minute, hourly |-> TRUE,
     dow |-> [all |-> TRUE, list |-> <<>>]]

(* the cron's test that an entry is due at minute t of a day of the week d: *)
(* an instant after cron.Start() that the expression matches; an @every     *)
(* entry is due a whole number of intervals after cron.Start()              *)
EntryDue(e, since, t, d) ==
    /\ t > since
    /\ IF e.every > 0 THEN (t - since) % e.every = 0
       ELSE /\ e.dow.all \/ \E i \in 1..Len(e.dow.list) : e.dow.list[i] = d
            /\ IF e.hourly THEN t % MinutesPerHour = e.at
               ELSE t % MinutesPerDay = e.at

(* addDailyReportJob: no entry when the end time does not parse *)
addDailyReportJob(sched) ==
    IF DailyReportMinute(sched) = NoTime THEN <<>>
    ELSE <<DailyEntry("daily", DailyReportMinute(sched), workDaysToCron(sched.WorkDays))>>

(* addAutoStartCaptureJob: no entry when the start time does not parse *)
addAutoStartCaptureJob(sched) ==
    LET startTime == ParseClock(sched.StartTime)
    IN  IF ~startTime.ok THEN <<>>
        ELSE <<DailyEntry("autostart", TodayAt(startTime), workDaysToCron(sched.WorkDays))>>

(* addAutoStopCaptureJob: no entry when the end time does not parse *)
addAutoStopCaptureJob(sched) ==
    LET endTime == ParseClock(sched.EndTime)
    IN  IF ~endTime.ok THEN <<>>
        ELSE <<DailyEntry("autostop", TodayAt(endTime), workDaysToCron(sched.WorkDays))>>

CronInit ==
    /\ gate = NoGate
    /\ now = CronMinutes[1]
    /\ weekday \in CronFirstDays
    /\ schedule \in CronSchedules
    /\ captureCfg = DefaultCapture
    /\ EngineIdle
    /\ StorageIdle
    /\ jobs = [j \in JobNames |-> IdleJob]
    /\ cronDaily = NoTime
    /\ cron = NoCron
    /\ PlannerIdle
    /\ lastRun = NoRun

SchedulerStartStopsAtFirstError ==
    /\ cron.starts < MaxCronStarts
    /\ IF cron.running
       THEN cron' = [cron EXCEPT !.err = "scheduler already running"]
       ELSE IF \/ addDailyReportJob(schedule) = <<>>
               \/ addAutoStartCaptureJob(schedule) = <<>>
               \/ addAutoStopCaptureJob(schedule) = <<>>
       THEN cron' = [cron EXCEPT !.starts = @ + 1, !.err = "failed to add job",
                         !.entries = @ \o <<EveryEntry("periodic", schedule.AnalysisInterval)>>]
       ELSE cron' = [cron EXCEPT
                        !.running = TRUE, !.starts = @ + 1, !.err = "nil",
                        !.since = now, !.sched = schedule, !.fired = {},
                        !.entries = @ \o <<EveryEntry("periodic", schedule.AnalysisInterval)>>
                                      \o addDailyReportJob(schedule)
                                      \o addAutoStartCaptureJob(schedule)
                                      \o addAutoStopCaptureJob(schedule)
                                      \o <<DailyEntry("cleanup", 3 * MinutesPerHour,
                                                      [all |-> TRUE, list |-> <<>>]),
                                           HourlyEntry("catchup", 5)>>]
    /\ UNCHANGED <<gate, planVars, clockVars, schedule, captureCfg, engVars, screenshots,
                   summaries, jobs, cronDaily, lastRun>>

(* Scheduler.Start: the entries are added to the cron made by NewScheduler, *)
(* the error of a work-time job is printed and passed over, then            *)
(* cron.Start() computes every entry's next instant from now                *)
SchedulerStart ==
    /\ cron.starts < MaxCronStarts
    /\ IF cron.running
       THEN cron' = [cron EXCEPT !.err = "scheduler already running"]
       ELSE cron' = [cron EXCEPT
                        !.running = TRUE, !.starts = @ + 1, !.err = "nil",
                        !.since = now, !.sched = schedule, !.fired = {},
                        !.entries = @ \o <<EveryEntry("periodic", schedule.AnalysisInterval)>>
                                      \o addDailyReportJob(schedule)
                                      \o addAutoStartCaptureJob(schedule)
                                      \o addAutoStopCaptureJob(schedule)
                                      \o <<DailyEntry("cleanup", 3 * MinutesPerHour,
                                                      [all |-> TRUE, list |-> <<>>]),
                                           HourlyEntry("catchup", 5)>>]
    /\ UNCHANGED <<gate, planVars, clockVars, schedule, captureCfg, engVars, screenshots,
                   summaries, jobs, cronDaily, lastRun>>

(* Scheduler.Stop: cron.Stop() halts the dispatch and keeps the entries *)
SchedulerStop ==
    /\ cron.running
    /\ cron' = [cron EXCEPT !.running = FALSE, !.fired = {}]
    /\ UNCHANGED <<gate, planVars, clockVars, schedule, captureCfg, engVars, screenshots,
                   summaries, jobs, cronDaily, lastRun>>

(* the running cron calls the job of an entry that is due and was not yet   *)
(* called at this instant                                                   *)
CronFire(i) ==
    /\ cron.running
    /\ i \in 1..Len(cron.entries)
    /\ i \notin cron.fired
    /\ EntryDue(cron.entries[i], cron.since, now, weekday)
    /\ cron' = [cron EXCEPT !.fired = @ \cup {i}]
    /\ UNCHANGED <<gate, planVars, clockVars, schedule, captureCfg, engVars, screenshots,
                   summaries, jobs, cronDaily, lastRun>>

(* handleUpdateConfig replacing the schedule *)
CronUpdateSchedule ==
    /\ schedule' \in CronSchedules
    /\ schedule' # schedule
    /\ UNCHANGED <<gate, planVars, clockVars, captureCfg, engVars, screenshots, schedVars>>

(* the clock moves to the next instant once the running cron has called     *)
(* every entry that is due                                                  *)
CronAdvanceClock ==
    /\ cron.running =>
          \A i \in 1..Len(cron.entries) :
              EntryDue(cron.entries[i], cron.since, now, weekday) => i \in cron.fired
    /\ \E k \in 1..(Len(CronMinutes) - 1) :
          now = CronMinutes[k] /\ now' = CronMinutes[k + 1]
    /\ cron' = [cron EXCEPT !.fired = {}]
    /\ UNCHANGED <<gate, planVars, weekday, schedule, captureCfg, engVars, screenshots,
                   summaries, jobs, cronDaily, lastRun>>

CronNext ==
    \/ SchedulerStart
    \/ SchedulerStop
    \/ \E i \in 1..(6 * MaxCronStarts) : CronFire(i)
    \/ CronUpdateSchedule
    \/ CronAdvanceClock

SpecCron == CronInit /\ [][CronNext]_vars

----------------------------------------------------------------------------
(* Properties of the scheduler's life cycle (checked under SpecCron) *)

(* the entries of a job among the entries from position k on *)
EntriesOf(c, job, k) == {i \in k..Len(c.entries) : c.entries[i].job = job}

(* the jobs the cron has called at the present instant *)
FiredJobs == {cron.entries[i].job : i \in cron.fired}

(* C31: with a work start or end time that does not parse, Start() still    *)
(* succeeds and the scheduler is running; the jobs derived from the invalid *)
(* value are not registered (auto-start from the start time, daily report   *)
(* and auto-stop from the end time); the periodic, catch-up and clean-up    *)
(* jobs are registered and are called at each of their instants.            *)
C31_BadTimeSkipsOnlyItsJobs ==
    [][/\ (/\ SchedulerStart
           /\ ~cron.running
           /\ ~ParseClock(schedule.StartTime).ok \/ ~ParseClock(schedule.EndTime).ok) =>
              LET k == Len(cron.entries) + 1
                  Added(job) == Cardinality(EntriesOf(cron', job, k))
              IN  /\ cron'.running /\ cron'.err = "nil"
                  /\ Added("periodic") = 1 /\ Added("catchup") = 1 /\ Added("cleanup") = 1
                  /\ Added("autostart") = IF ParseClock(schedule.StartTime).ok THEN 1 ELSE 0
                  /\ Added("daily") = IF ParseClock(schedule.EndTime).ok THEN 1 ELSE 0
                  /\ Added("autostop") = IF ParseClock(schedule.EndTime).ok THEN 1 ELSE 0
       /\ (CronAdvanceClock /\ cron.running /\ now > cron.since) =>
              /\ now = 3 * MinutesPerHour => "cleanup" \in FiredJobs
              /\ now % MinutesPerHour = 5 => "catchup" \in FiredJobs
              /\ (now - cron.since) % cron.sched.AnalysisInterval = 0
                    => "periodic" \in FiredJobs]_vars

(* started once with a start time that does not parse: at 09:05 the         *)
(* catch-up job was called and no auto-start entry exists                   *)
C31_Witness ==
    /\ cron.running
    /\ cron.starts = 1
    /\ ~ParseClock(cron.sched.StartTime).ok
    /\ now = 545
    /\ "catchup" \in FiredJobs
    /\ EntriesOf(cron, "autostart", 1) = {}
    /\ EntriesOf(cron, "autostop", 1) # {}

(* the entries Start() registers for a schedule *)
Registered(sched) ==
    <<EveryEntry("periodic", sched.AnalysisInterval)>>
        \o addDailyReportJob(sched) \o addAutoStartCaptureJob(sched)
        \o addAutoStopCaptureJob(sched)
        \o <<DailyEntry("cleanup", 3 * MinutesPerHour, [all |-> TRUE, list |-> <<>>]),
             HourlyEntry("catchup", 5)>>

(* C33 (as claimed): after Stop() and Start() on the same scheduler each    *)
(* job is registered exactly once: the entries are those of the last        *)
(* Start(), none made by an earlier Start() remains, and no job is called   *)
(* twice at one instant.                                                    *)
C33_RestartRegistersOnce ==
    cron.running =>
        /\ cron.entries = Registered(cron.sched)
        /\ Cardinality(FiredJobs) = Cardinality(cron.fired)

(* C37 (as claimed): the auto-start, auto-stop and daily report jobs are    *)
(* due on a weekday d if and only if d is in the workDays the schedule gate *)
(* tests, for every workDays, the empty list included (never due).  Stated  *)
(* for a scheduler started once.                                            *)
C37_WorkDayJobsFollowWorkDays ==
    (cron.running /\ cron.starts = 1) =>
        \A i \in 1..Len(cron.entries) :
            cron.entries[i].job \in {"daily", "autostart", "autostop"} =>
                \A d \in 0..6 :
                    EntryDue(cron.entries[i], 0 - 1, cron.entries[i].at, d)
                        <=> IsDayInList(d, cron.sched.WorkDays)

============================================================================
